---- MODULE Spec2Model ----
(***************************************************************************)
(* The gateway client core of the Enphase Envoy reader                     *)
(* (custom_components/enphase_envoy/envoy_reader.py, class EnvoyReader).   *)
(*                                                                         *)
(* The reader is one sequential coroutine: its only suspension points are  *)
(* the HTTP exchanges.  The model keeps the coroutine's call stack as a    *)
(* sequence of frames (the function and the place in it), the fields of    *)
(* the EnvoyReader object, and the answer of the gateway or of the cloud   *)
(* to every request as a nondeterministic choice.                          *)
(***************************************************************************)
EXTENDS Integers, Sequences, FiniteSets, TLC

VARIABLES
    stack,              \* the coroutine's call stack, innermost frame last
    ret,                \* the value the last returning call handed back
    outcome,            \* how the last top-level call ended
    token,              \* self._token (0 is the empty string)
    header,             \* self._authorization_header (0 is None, t is "Bearer t")
    cookies,            \* self._cookies (0 is None)
    endpoint_type,      \* self.endpoint_type
    isMeteringEnabled,  \* self.isMeteringEnabled
    installer_access,   \* self.installer_access
    get_inverters,      \* self.get_inverters
    cache,              \* the endpoint_* attributes
    buffer,             \* self.token_refresh_buffer_seconds
    device,             \* the gateway on the other end: its production.json, and
                        \* its answers if they never change
    now,                \* the wall clock
    cycles,             \* top-level calls started so far
    faultsLeft,         \* anomalous answers the gateway and the cloud may still give
    reqCount,           \* HTTP exchanges since the current top-level fetch began
    ev,                 \* the HTTP exchange of the last step, if it was one
    hist                \* what happened so far in the current getData call

vars == <<stack, ret, outcome, token, header, cookies, endpoint_type,
          isMeteringEnabled, installer_access, get_inverters, cache, buffer, device,
          now, cycles, faultsLeft, reqCount, ev, hist>>

session == <<token, header, cookies, endpoint_type, isMeteringEnabled,
             installer_access, get_inverters, cache, buffer>>

---------------------------------------------------------------------------
(* Bounds of the model. *)

MaxCycles == 2
MaxFaults == 3
MaxNest == 3
MaxTime == 1

\* How many different tokens the cloud issues before it repeats itself.
MaxTokens == 2
MaxRequests == 22

\* The rows of the pcu table, and of the nsrb table, of a gateway.
MaxRows == 3

MaxNsrbRows == 1
FetchFaults == 18

---------------------------------------------------------------------------
(* Program constants. *)

\* for attempt in range(3)
RetryAttempts == 3

\* if resp.status_code == 401 and attempt < 2
ReauthAttempts == 2

ENVOY_MODEL_S == "PC"

\* == 12:  # this is a relay
RelayDevType == 12

ENVOY_MODEL_C == "P"

\* endpoint_type is None
Unset == "None"

ENDPOINT_URL_PRODUCTION_JSON == "production.json"

ENDPOINT_URL_PRODUCTION_V1 == "api/v1/production"

ENDPOINT_URL_PRODUCTION_INVERTERS == "api/v1/production/inverters"

ENDPOINT_URL_CHECK_JWT == "auth/check_jwt"

ENDPOINT_URL_ENSEMBLE_INVENTORY == "ivp/ensemble/inventory"

ENDPOINT_URL_HOME_JSON == "home.json"

ENDPOINT_URL_DEVSTATUS == "ivp/peb/devstatus"

ENDPOINT_URL_PRODUCTION_POWER == "ivp/mod/603980032/mode/power"

DataUrls == {ENDPOINT_URL_PRODUCTION_JSON, ENDPOINT_URL_PRODUCTION_V1,
             ENDPOINT_URL_PRODUCTION_INVERTERS, ENDPOINT_URL_ENSEMBLE_INVENTORY,
             ENDPOINT_URL_HOME_JSON, ENDPOINT_URL_DEVSTATUS,
             ENDPOINT_URL_PRODUCTION_POWER}

\* The attributes of EnvoyReader that cache a response.
Attrs == {"endpoint_production_json_results", "endpoint_production_v1_results",
          "endpoint_production_inverters", "endpoint_ensemble_json_results",
          "endpoint_home_json_results", "endpoint_devstatus",
          "endpoint_production_power"}

\* The refresh margins a reader can be built with (the default, and one that
\* is longer than a tick of the clock).
Buffers == {0, 2}

\* Tokens the cloud can issue; token t carries the expiry claim TokenExp(t).
Tokens == 1..MaxTokens

TokenExp(t) == t

\* Every sign-in gets a token of its own: not the one the reader holds.
FreshToken == (token % MaxTokens) + 1

\* The session cookies the gateway hands out with a token check that
\* succeeds: the session it opens for the bearer token of the request.
SessionCookies(bearer) == bearer

---------------------------------------------------------------------------
(* HTTP responses.  status -1 stands for an httpx.TransportError raised by  *)
(* the client instead of a response.  body is what the code reads of the    *)
(* body: for production.json whether it has both sections and the active CT *)
(* count ("pcm": both, activeCount > 0; "pcu": both, activeCount = 0), for  *)
(* auth/check_jwt the text of the h2 heading, for the cloud whether the     *)
(* form field, or the token field (with the token in it), is there.         *)

Resp(s, b, c) == [status |-> s, body |-> b, cookies |-> c, token |-> 0]

\* Python's None, where a response is expected.
None == Resp(0, "None", 0)

TransportError == Resp(-1, "TransportError", 0)

Statuses == {200, 301, 401, 404}

\* What the production.json of a gateway can look like.
Shapes == {"pcm", "pcu", "plain"}

\* The gateways the reader can be pointed at, by what their production.json
\* looks like; what they answer can change from one request to the next.
Devices == { [json |-> j, steady |-> FALSE] : j \in Shapes }

\* The endpoints detect_model decides on.
ProbeUrls == {ENDPOINT_URL_PRODUCTION_JSON, ENDPOINT_URL_PRODUCTION_V1,
              ENDPOINT_URL_DEVSTATUS, ENDPOINT_URL_PRODUCTION_POWER}

SteadyStatuses == {-1, 200, 401, 404}

SteadyHeadings == {"Valid token.", "Invalid token!", "no h2"}

\* Gateways that answer every request of an endpoint the same way: a status
\* (or no answer) for each endpoint detect_model decides on, 200 for the
\* other data endpoints, and one page for every token check.
SteadyDevices ==
    { [json |-> j, steady |-> TRUE, status |-> f, jwt |-> h] :
        j \in Shapes, f \in [ProbeUrls -> SteadyStatuses], h \in SteadyHeadings }

Bodies(url) ==
    IF url = ENDPOINT_URL_PRODUCTION_JSON THEN {device.json} ELSE {"plain"}

\* What the gateway can answer to a GET of a data endpoint.
DataAnswers(url) ==
    {TransportError}
    \cup { Resp(200, b, 0) : b \in Bodies(url) }
    \cup { Resp(s, "plain", 0) : s \in Statuses \ {200} }

\* What the gateway can answer to GET auth/check_jwt: a page whose h2 reads
\* "Valid token." (with the session cookies), a page with another h2, a page
\* with none; under status 200 or 401; or 404; or no answer.
JwtAnswers ==
    {TransportError, Resp(404, "no h2", 0)}
    \cup { Resp(s, "Valid token.", SessionCookies(header)) : s \in {200, 401} }
    \cup { Resp(s, b, 0) : s \in {200, 401}, b \in {"Invalid token!", "no h2"} }

\* The one answer of a steady gateway to a request of url.
SteadyAnswer(url) ==
    IF url = ENDPOINT_URL_CHECK_JWT
    THEN Resp(200, device.jwt,
              IF device.jwt = "Valid token." THEN SessionCookies(header) ELSE 0)
    ELSE LET st == IF url \in ProbeUrls THEN device.status[url] ELSE 200
         IN  IF st = -1 THEN TransportError
             ELSE IF st = 200 THEN Resp(200, CHOOSE b \in Bodies(url) : TRUE, 0)
             ELSE Resp(st, "plain", 0)

GatewayAnswers(url) ==
    IF device.steady THEN {SteadyAnswer(url)}
    ELSE IF url = ENDPOINT_URL_CHECK_JWT THEN JwtAnswers ELSE DataAnswers(url)

ENLIGHTEN_AUTH_FORM_URL == "enlighten"

ENLIGHTEN_LOGIN_URL == "enlighten/form_action"

ENLIGHTEN_TOKEN_URL == "enlighten/entrez-auth-token"

\* What the cloud can answer to the three requests of the sign-in.
CloudAnswers(url) ==
    {TransportError}
    \cup IF url = ENLIGHTEN_AUTH_FORM_URL
           THEN {Resp(200, "form", 0), Resp(200, "no authenticity_token", 0)}
         ELSE IF url = ENLIGHTEN_LOGIN_URL
           THEN {Resp(200, "plain", 0), Resp(401, "plain", 0)}
         ELSE {Resp(200, "no token", 0)}
              \cup { [Resp(200, "token", 0) EXCEPT !.token = FreshToken] }

\* An answer that uses up the fault budget: anything but the answer of a
\* healthy gateway (200; for the token check a page that reads valid) or of
\* a cloud that accepts the sign-in.
IsFault(url, ans) ==
    \/ ans.status # 200
    \/ ans.body \in {"Invalid token!", "no h2", "no authenticity_token", "no token"}

\* The answers that use up the fault budget: those of the cloud and of a
\* gateway whose answers can change; a steady gateway answers as it is made.
Charged(kind, url, ans) == IsFault(url, ans) /\ ~(kind = "get" /\ device.steady)

---------------------------------------------------------------------------
(* Frames of the call stack. *)

Frame(fn, pc) == [fn |-> fn, pc |-> pc]

\* A call of _async_fetch_with_retry, at the GET of its first attempt.
FetchFrame(url) ==
    [fn |-> "_async_fetch_with_retry", pc |-> "get", url |-> url, attempt |-> 0]

\* A call of one of the three endpoint groups, before its first endpoint.
GroupFrame(fn) == [fn |-> fn, pc |-> "call", idx |-> 0]

Top == stack[Len(stack)]

Rest == SubSeq(stack, 1, Len(stack) - 1)

Running == stack # <<>>

AtTop(fn, pc) == Running /\ Top.fn = fn /\ Top.pc = pc

\* The stack with its innermost frame replaced.
SetTop(f) == Append(Rest, f)

\* The stack with the innermost frame moved to pc and a call pushed on it.
Call(pc, callee) == Append(SetTop([Top EXCEPT !.pc = pc]), callee)

Ret(b, r, t) == [b |-> b, resp |-> r, tok |-> t]

NoRet == Ret(FALSE, None, 0)

NoEv == [kind |-> "none", url |-> "", ans |-> None]

FetchFrames(stk) == { i \in 1..Len(stk) : stk[i].fn = "_async_fetch_with_retry" }

Nest == Cardinality(FetchFrames(stack))

NoHist == [entryToken |-> 0, reauth |-> FALSE, data |-> FALSE, mode |-> "none",
           arg |-> "none",
           before |-> <<>>, polled |-> {}]

---------------------------------------------------------------------------
(* Exceptions.  An exception raised in the innermost frame unwinds the      *)
(* stack to the first frame that is inside a try whose except clause names  *)
(* it; with none, it leaves the top-level call.                             *)

IsHTTPError(e) == e \in {"TransportError", "HTTPStatusError"}

\* A retry loop that gives up one failure later than the reader's.
FetchReraisesLate(f) == f.attempt = 3

\* except httpx.TransportError as e: if attempt == 2: raise e
FetchReraises(f) == f.attempt = 2

\* A detect_model without its try statements.
CatchesInFetchOnly(f, e) ==
    /\ f.fn = "_async_fetch_with_retry"
    /\ e = "TransportError"
    /\ ~FetchReraises(f)

\* A reader whose _update_endpoint would swallow the errors of its fetch.
CatchesPerEndpoint(f, e) ==
    \/ /\ f.fn = "_async_fetch_with_retry"
       /\ e = "TransportError"
       /\ ~FetchReraises(f)
    \/ /\ f.fn = "detect_model"
       /\ f.pc \in {"try_pc", "try_p", "try_installer"}
       /\ IsHTTPError(e)
    \/ /\ f.fn = "_update_endpoint"
       /\ IsHTTPError(e)

\* A retry loop whose try statement holds the GET alone.
CatchesOwnGet(f, e) ==
    \/ /\ f.fn = "_async_fetch_with_retry"
       /\ f.pc = "get"
       /\ e = "TransportError"
       /\ ~FetchReraises(f)
    \/ /\ f.fn = "detect_model"
       /\ f.pc \in {"try_pc", "try_p", "try_installer"}
       /\ IsHTTPError(e)

Catches(f, e) ==
    \/ /\ f.fn = "_async_fetch_with_retry"
       /\ e = "TransportError"
       /\ ~FetchReraises(f)
    \/ /\ f.fn = "detect_model"
       /\ f.pc \in {"try_pc", "try_p", "try_installer"}
       /\ IsHTTPError(e)

\* The frame after its except clause ran: the fetch loop goes to its next
\* attempt; detect_model goes on after the try statement (pass), as it does
\* when the call in the try returns.
Handler(f) ==
    IF f.fn = "_async_fetch_with_retry"
    THEN [f EXCEPT !.attempt = @ + 1, !.pc = "get"]
    ELSE f

RECURSIVE Unwind(_, _)
Unwind(stk, e) ==
    IF stk = <<>> THEN <<>>
    ELSE LET f == stk[Len(stk)]
             below == SubSeq(stk, 1, Len(stk) - 1)
         IN  IF Catches(f, e) THEN Append(below, Handler(f)) ELSE Unwind(below, e)

\* What every step does to the request counter: it counts the exchanges of
\* the running top-level fetch.
Count(n) == reqCount' = IF FetchFrames(stack') = {} THEN 0 ELSE reqCount + n

\* One HTTP exchange: the request at url and its answer ans.
Exchange(kind, url, ans) ==
    /\ reqCount < MaxRequests
    /\ Charged(kind, url, ans) => faultsLeft > 0
    /\ faultsLeft' = IF Charged(kind, url, ans) THEN faultsLeft - 1 ELSE faultsLeft
    /\ ev' = [kind |-> kind, url |-> url, ans |-> ans]
    /\ Count(1)

\* A step without HTTP exchange.
Quiet == ev' = NoEv /\ faultsLeft' = faultsLeft /\ Count(0)

Raise(e) ==
    /\ stack' = Unwind(stack, e)
    /\ outcome' = IF stack' = <<>> THEN e ELSE outcome
    /\ ret' = NoRet

Return(r) ==
    /\ stack' = Rest
    /\ outcome' = IF Rest = <<>> THEN "ok" ELSE outcome
    /\ ret' = r

Goto(stk) == stack' = stk /\ ret' = NoRet /\ outcome' = outcome

---------------------------------------------------------------------------
(* _async_fetch_with_retry *)

\* The GET raised httpx.TransportError.
FetchTransportError ==
    /\ AtTop("_async_fetch_with_retry", "get")
    /\ Top.attempt < RetryAttempts
    /\ TransportError \in GatewayAnswers(Top.url)
    /\ Raise("TransportError")
    /\ Exchange("get", Top.url, TransportError)
    /\ UNCHANGED <<session, device, now, cycles, hist>>

\* A retry loop that refreshes the token after every 401, the last included.
NeedsRefreshAlways(f, resp) == resp.status = 401

\* if resp.status_code == 401 and attempt < 2:
NeedsRefresh(f, resp) == resp.status = 401 /\ f.attempt < ReauthAttempts

\* A 401 before the last attempt: the cookies are refreshed first.
FetchUnauthorized ==
    /\ AtTop("_async_fetch_with_retry", "get")
    /\ Top.attempt < RetryAttempts
    /\ Nest < MaxNest
    /\ Goto(Call("could_refresh_cookies", Frame("_refresh_token_cookies", "start")))
    /\ \E ans \in GatewayAnswers(Top.url) \ {TransportError} :
          /\ NeedsRefresh(Top, ans)
          /\ Exchange("get", Top.url, ans)
    /\ UNCHANGED <<session, device, now, cycles, hist>>

\* A fetch that hands a 404 to its caller like any other response.
FetchResultAsIs(resp) == resp

\* if resp.status_code == 404: return None ... return resp
FetchResult(resp) == IF resp.status = 404 THEN None ELSE resp

\* Any other answer ends the call: None for a 404, else the response.  (A
\* loop that ran out of attempts would end the call with None as well.)
FetchReturn ==
    /\ AtTop("_async_fetch_with_retry", "get")
    /\ IF Top.attempt < RetryAttempts
       THEN \E ans \in GatewayAnswers(Top.url) \ {TransportError} :
               /\ ~NeedsRefresh(Top, ans)
               /\ Return(Ret(FALSE, FetchResult(ans), 0))
               /\ Exchange("get", Top.url, ans)
       ELSE Return(Ret(FALSE, None, 0)) /\ Quiet
    /\ UNCHANGED <<session, device, now, cycles, hist>>

\* could_refresh_cookies = await self._refresh_token_cookies()
\* if not could_refresh_cookies: await self._getEnphaseToken()
FetchAfterRefresh ==
    /\ AtTop("_async_fetch_with_retry", "could_refresh_cookies")
    /\ IF ~ret.b
       THEN Goto(Call("reauthenticated", Frame("_getEnphaseToken", "start")))
       ELSE Goto(SetTop(Handler(Top)))
    /\ Quiet
    /\ UNCHANGED <<session, device, now, cycles, hist>>

\* continue, after the full re-authentication
FetchAfterToken ==
    /\ AtTop("_async_fetch_with_retry", "reauthenticated")
    /\ Goto(SetTop(Handler(Top)))
    /\ Quiet
    /\ UNCHANGED <<session, device, now, cycles, hist>>

---------------------------------------------------------------------------
(* _refresh_token_cookies *)

\* A reader that makes its header once and keeps it.
authorization_header_once(tok) == IF header = 0 THEN tok ELSE header

\* {"Authorization": "Bearer " + self._token}: a header is kept as the token
\* that it carries.
authorization_header(tok) == tok

\* self._authorization_header = {"Authorization": "Bearer " + self._token}
\* and the fetch of auth/check_jwt
RefreshStart ==
    /\ AtTop("_refresh_token_cookies", "start")
    /\ header' = authorization_header(token)
    /\ Goto(Call("token_validation_html", FetchFrame(ENDPOINT_URL_CHECK_JWT)))
    /\ Quiet
    /\ UNCHANGED <<token, cookies, endpoint_type, isMeteringEnabled,
                   installer_access, get_inverters, cache, buffer, device, now, cycles, hist>>

\* token_validation_html.text of None, or soup.find("h2") is None
RefreshRaise ==
    /\ AtTop("_refresh_token_cookies", "token_validation_html")
    /\ ret.resp = None \/ ret.resp.body = "no h2"
    /\ Raise("AttributeError")
    /\ Quiet
    /\ UNCHANGED <<session, device, now, cycles, hist>>

\* A reader that takes every heading for that of a valid token.
is_enphase_token_valid_always(response) == TRUE

\* _is_enphase_token_valid: if response == "Valid token."
is_enphase_token_valid(response) == response = "Valid token."

\* The heading reads "Valid token.": self._cookies = token_validation_html.cookies
RefreshValid ==
    /\ AtTop("_refresh_token_cookies", "token_validation_html")
    /\ ret.resp # None /\ ret.resp.body # "no h2"
    /\ is_enphase_token_valid(ret.resp.body)
    /\ cookies' = ret.resp.cookies
    /\ Return(Ret(TRUE, None, 0))
    /\ Quiet
    /\ UNCHANGED <<token, header, endpoint_type, isMeteringEnabled,
                   installer_access, get_inverters, cache, buffer, device, now, cycles, hist>>

\* token not valid if we get here
RefreshInvalid ==
    /\ AtTop("_refresh_token_cookies", "token_validation_html")
    /\ ret.resp # None /\ ret.resp.body # "no h2"
    /\ ~is_enphase_token_valid(ret.resp.body)
    /\ Return(Ret(FALSE, None, 0))
    /\ Quiet
    /\ UNCHANGED <<session, device, now, cycles, hist>>

---------------------------------------------------------------------------
(* _getEnphaseToken and _fetch_owner_token_json *)

\* token_json = await self._fetch_owner_token_json()
GetTokenStart ==
    /\ AtTop("_getEnphaseToken", "start")
    /\ Goto(Call("token_json", Frame("_fetch_owner_token_json", "get_form")))
    /\ Quiet
    /\ UNCHANGED <<session, device, now, cycles, hist>>

\* self._token = token_json["token"]; await self._refresh_token_cookies()
GetTokenStore ==
    /\ AtTop("_getEnphaseToken", "token_json")
    /\ token' = ret.tok
    /\ hist' = [hist EXCEPT !.reauth = TRUE]
    /\ Goto(Call("refreshed", Frame("_refresh_token_cookies", "start")))
    /\ Quiet
    /\ UNCHANGED <<header, cookies, endpoint_type, isMeteringEnabled,
                   installer_access, get_inverters, cache, buffer, device, now, cycles>>

\* The result of the cookie refresh is dropped.
GetTokenReturn ==
    /\ AtTop("_getEnphaseToken", "refreshed")
    /\ Return(NoRet)
    /\ Quiet
    /\ UNCHANGED <<session, device, now, cycles, hist>>

\* One request of the sign-in raised httpx.TransportError.
OwnerTransportError ==
    /\ Running /\ Top.fn = "_fetch_owner_token_json"
    /\ Raise("TransportError")
    /\ Exchange("cloud", Top.pc, TransportError)
    /\ UNCHANGED <<session, device, now, cycles, hist>>

\* resp = await client.get(ENLIGHTEN_AUTH_FORM_URL): the input named
\* authenticity_token is looked up, and subscripted whether found or not.
OwnerGetForm ==
    /\ AtTop("_fetch_owner_token_json", "get_form")
    /\ \E ans \in CloudAnswers(ENLIGHTEN_AUTH_FORM_URL) \ {TransportError} :
          /\ IF ans.body = "form"
             THEN Goto(SetTop([Top EXCEPT !.pc = "post"]))
             ELSE Raise("TypeError")
          /\ Exchange("cloud", "get_form", ans)
    /\ UNCHANGED <<session, device, now, cycles, hist>>

\* A sign-in that goes on whatever the status of the login POST.
LoginRejectedNever(resp) == FALSE

\* if resp.status_code >= 400:
LoginRejected(resp) == resp.status >= 400

\* resp = await client.post(...); raise Exception if the login is rejected
OwnerPost ==
    /\ AtTop("_fetch_owner_token_json", "post")
    /\ \E ans \in CloudAnswers(ENLIGHTEN_LOGIN_URL) \ {TransportError} :
          /\ IF LoginRejected(ans)
             THEN Raise("Exception")
             ELSE Goto(SetTop([Top EXCEPT !.pc = "get_token"]))
          /\ Exchange("cloud", "post", ans)
    /\ UNCHANGED <<session, device, now, cycles, hist>>

\* resp = await client.get(ENLIGHTEN_TOKEN_URL...); if "token" not in
\* resp_json.keys(): raise Exception; return resp_json
OwnerGetToken ==
    /\ AtTop("_fetch_owner_token_json", "get_token")
    /\ \E ans \in CloudAnswers(ENLIGHTEN_TOKEN_URL) \ {TransportError} :
          /\ IF ans.body = "token"
             THEN Return(Ret(FALSE, None, ans.token))
             ELSE Raise("Exception")
          /\ Exchange("cloud", "get_token", ans)
    /\ UNCHANGED <<session, device, now, cycles, hist>>

TokenManager ==
    \/ RefreshStart \/ RefreshRaise \/ RefreshValid \/ RefreshInvalid
    \/ GetTokenStart \/ GetTokenStore \/ GetTokenReturn
    \/ OwnerTransportError \/ OwnerGetForm \/ OwnerPost \/ OwnerGetToken

Transport ==
    \/ FetchTransportError \/ FetchUnauthorized \/ FetchReturn
    \/ FetchAfterRefresh \/ FetchAfterToken

---------------------------------------------------------------------------
(* check_connection *)

CheckConnectionCall ==
    /\ ~Running
    /\ cycles < MaxCycles
    /\ cycles' = cycles + 1
    /\ stack' = <<Frame("check_connection", "resp"), FetchFrame(ENDPOINT_URL_PRODUCTION_V1)>>
    /\ outcome' = "running"
    /\ ret' = NoRet
    /\ hist' = NoHist
    /\ Quiet
    /\ UNCHANGED <<session, device, now>>

\* resp.status_code of None; if resp.status_code == 301: raise SwitchToHTTPS
CheckConnectionReturn ==
    /\ AtTop("check_connection", "resp")
    /\ IF ret.resp = None THEN Raise("AttributeError")
       ELSE IF ret.resp.status = 301 THEN Raise("SwitchToHTTPS")
       ELSE Return(NoRet)
    /\ Quiet
    /\ UNCHANGED <<session, device, now, cycles, hist>>

---------------------------------------------------------------------------
(* _update, the three endpoint groups and _update_endpoint *)

Groups == {"_update_from_pc_endpoint", "_update_from_p_endpoint",
           "_update_from_installer_endpoint"}

Endpoint(attr, url, oos) == [attr |-> attr, url |-> url, only_on_success |-> oos]

\* The _update_endpoint calls of each group, in order.
GroupPlan(fn) ==
    IF fn = "_update_from_pc_endpoint"
    THEN << Endpoint("endpoint_production_json_results", ENDPOINT_URL_PRODUCTION_JSON, FALSE),
            Endpoint("endpoint_ensemble_json_results", ENDPOINT_URL_ENSEMBLE_INVENTORY, FALSE),
            Endpoint("endpoint_home_json_results", ENDPOINT_URL_HOME_JSON, FALSE) >>
    ELSE IF fn = "_update_from_p_endpoint"
    THEN << Endpoint("endpoint_production_v1_results", ENDPOINT_URL_PRODUCTION_V1, FALSE) >>
    ELSE << Endpoint("endpoint_devstatus", ENDPOINT_URL_DEVSTATUS, TRUE),
            Endpoint("endpoint_production_power", ENDPOINT_URL_PRODUCTION_POWER, TRUE) >>

UpdateEndpointFrame(e) ==
    [fn |-> "_update_endpoint", pc |-> "response", attr |-> e.attr,
     only_on_success |-> e.only_on_success]

\* The next _update_endpoint call of a group: it starts with the fetch.
GroupCall ==
    /\ Running /\ Top.fn \in Groups
    /\ Top.idx < Len(GroupPlan(Top.fn))
    /\ LET e == GroupPlan(Top.fn)[Top.idx + 1]
       IN  Goto(SetTop([Top EXCEPT !.idx = @ + 1])
                  \o <<UpdateEndpointFrame(e), FetchFrame(e.url)>>)
    /\ hist' = [hist EXCEPT !.data = TRUE,
                            !.polled = @ \cup {GroupPlan(Top.fn)[Top.idx + 1].url}]
    /\ Quiet
    /\ UNCHANGED <<session, device, now, cycles>>

GroupReturn ==
    /\ Running /\ Top.fn \in Groups
    /\ Top.idx = Len(GroupPlan(Top.fn))
    /\ Return(NoRet)
    /\ Quiet
    /\ UNCHANGED <<session, device, now, cycles, hist>>

\* if not only_on_success or response.status_code == 200: with
\* only_on_success the status of None is read.
UpdateEndpointRaise ==
    /\ AtTop("_update_endpoint", "response")
    /\ Top.only_on_success /\ ret.resp = None
    /\ Raise("AttributeError")
    /\ Quiet
    /\ UNCHANGED <<session, device, now, cycles, hist>>

\* An update that stores whatever the fetch returned.
OverwritesAlways(only_on_success, response) == TRUE

\* if not only_on_success or response.status_code == 200:
Overwrites(only_on_success, response) ==
    ~only_on_success \/ response.status = 200

\* setattr(self, attr, response), or nothing
UpdateEndpointStore ==
    /\ AtTop("_update_endpoint", "response")
    /\ ~(Top.only_on_success /\ ret.resp = None)
    /\ cache' = IF Overwrites(Top.only_on_success, ret.resp)
                THEN [cache EXCEPT ![Top.attr] = ret.resp]
                ELSE cache
    /\ Return(NoRet)
    /\ Quiet
    /\ UNCHANGED <<token, header, cookies, endpoint_type, isMeteringEnabled,
                   installer_access, get_inverters, buffer, device, now, cycles, hist>>

\* An _update that fetches the production-only endpoint for that class alone.
UpdateGroupByClass(pc) ==
    IF pc = "pc"
    THEN IF endpoint_type = ENVOY_MODEL_S THEN "_update_from_pc_endpoint" ELSE ""
    ELSE IF pc = "p"
    THEN IF endpoint_type = ENVOY_MODEL_C THEN "_update_from_p_endpoint" ELSE ""
    ELSE IF installer_access THEN "_update_from_installer_endpoint" ELSE ""

\* An _update that fetches the combined endpoints whatever the class.
UpdateGroupCombined(pc) ==
    IF pc = "pc"
    THEN "_update_from_pc_endpoint"
    ELSE IF pc = "p"
    THEN IF \/ endpoint_type = ENVOY_MODEL_C
            \/ endpoint_type = ENVOY_MODEL_S /\ ~isMeteringEnabled
         THEN "_update_from_p_endpoint" ELSE ""
    ELSE IF installer_access THEN "_update_from_installer_endpoint" ELSE ""

\* The group _update calls at each of its three if statements, if any.
UpdateGroup(pc) ==
    IF pc = "pc"
    THEN IF endpoint_type = ENVOY_MODEL_S THEN "_update_from_pc_endpoint" ELSE ""
    ELSE IF pc = "p"
    THEN IF \/ endpoint_type = ENVOY_MODEL_C
            \/ endpoint_type = ENVOY_MODEL_S /\ ~isMeteringEnabled
         THEN "_update_from_p_endpoint" ELSE ""
    ELSE IF installer_access THEN "_update_from_installer_endpoint" ELSE ""

UpdateNextPc(pc) == IF pc = "pc" THEN "p" ELSE IF pc = "p" THEN "installer" ELSE "done"

UpdateStep ==
    /\ Running /\ Top.fn = "_update" /\ Top.pc # "done"
    /\ IF UpdateGroup(Top.pc) # ""
       THEN Goto(Call(UpdateNextPc(Top.pc), GroupFrame(UpdateGroup(Top.pc))))
       ELSE Goto(SetTop([Top EXCEPT !.pc = UpdateNextPc(Top.pc)]))
    /\ Quiet
    /\ UNCHANGED <<session, device, now, cycles, hist>>

UpdateReturn ==
    /\ AtTop("_update", "done")
    /\ Return(NoRet)
    /\ Quiet
    /\ UNCHANGED <<session, device, now, cycles, hist>>

---------------------------------------------------------------------------
(* detect_model *)

has_production_and_consumption(json) == json \in {"pcm", "pcu"}

\* A check of the metering that only a reader without a class makes.
has_metering_setup_once(json) == json = "pcm" /\ endpoint_type = Unset

\* A check of the metering that finds it set up on every gateway.
has_metering_setup_any(json) == TRUE

\* json["production"][1]["activeCount"] > 0
has_metering_setup(json) == json = "pcm"

\* try: await self._update_from_pc_endpoint() except httpx.HTTPError: pass
DetectStart ==
    /\ AtTop("detect_model", "start")
    /\ Goto(Call("try_pc", GroupFrame("_update_from_pc_endpoint")))
    /\ Quiet
    /\ UNCHANGED <<session, device, now, cycles, hist>>

\* A detection that goes on whatever the status of the combined response.
SecureRequiredNever(r) == FALSE

\* if self.endpoint_production_json_results and
\* self.endpoint_production_json_results.status_code == 401:
SecureRequired(r) == r # None /\ r.status = 401

\* production.json answered 401
DetectSecure ==
    /\ AtTop("detect_model", "try_pc")
    /\ SecureRequired(cache["endpoint_production_json_results"])
    /\ Raise("RuntimeError")
    /\ Quiet
    /\ UNCHANGED <<session, device, now, cycles, hist>>

\* The second if of detect_model, which makes the reader a model S.
DetectIsS ==
    LET r == cache["endpoint_production_json_results"]
    IN  r # None /\ r.status = 200 /\ has_production_and_consumption(r.body)

\* self.isMeteringEnabled = has_metering_setup(...); without metering the
\* production-only endpoint is fetched before endpoint_type is set.
DetectModelS ==
    /\ AtTop("detect_model", "try_pc")
    /\ DetectIsS
    /\ isMeteringEnabled' = has_metering_setup(cache["endpoint_production_json_results"].body)
    /\ IF isMeteringEnabled'
       THEN /\ endpoint_type' = ENVOY_MODEL_S
            /\ Goto(SetTop([Top EXCEPT !.pc = "typed"]))
       ELSE /\ endpoint_type' = endpoint_type
            /\ Goto(Call("set_s", GroupFrame("_update_from_p_endpoint")))
    /\ Quiet
    /\ UNCHANGED <<token, header, cookies, installer_access, get_inverters,
                   cache, buffer, device, now, cycles, hist>>

\* self.endpoint_type = ENVOY_MODEL_S, after the production-only fetch
DetectSetS ==
    /\ AtTop("detect_model", "set_s")
    /\ endpoint_type' = ENVOY_MODEL_S
    /\ Goto(SetTop([Top EXCEPT !.pc = "typed"]))
    /\ Quiet
    /\ UNCHANGED <<token, header, cookies, isMeteringEnabled, installer_access,
                   get_inverters, cache, buffer, device, now, cycles, hist>>

\* if not self.endpoint_type: try: await self._update_from_p_endpoint() ...
DetectTryP ==
    /\ AtTop("detect_model", "try_pc")
    /\ ~DetectIsS
    /\ ~SecureRequired(cache["endpoint_production_json_results"])
    /\ Goto(Call("try_p", GroupFrame("_update_from_p_endpoint")))
    /\ Quiet
    /\ UNCHANGED <<session, device, now, cycles, hist>>

\* A detection that takes any response of the production-only endpoint.
ProductionOnlyOkAny(r) == r # None

\* if self.endpoint_production_v1_results and
\* self.endpoint_production_v1_results.status_code == 200:
ProductionOnlyOk(r) == r # None /\ r.status = 200

\* self.endpoint_type = ENVOY_MODEL_C, if the production-only probe was a 200
DetectModelC ==
    /\ AtTop("detect_model", "try_p")
    /\ endpoint_type' =
          IF ProductionOnlyOk(cache["endpoint_production_v1_results"])
          THEN ENVOY_MODEL_C ELSE endpoint_type
    /\ Goto(SetTop([Top EXCEPT !.pc = "typed"]))
    /\ Quiet
    /\ UNCHANGED <<token, header, cookies, isMeteringEnabled, installer_access,
                   get_inverters, cache, buffer, device, now, cycles, hist>>

\* if not self.endpoint_type: raise RuntimeError(...)
DetectUnknown ==
    /\ AtTop("detect_model", "typed")
    /\ endpoint_type = Unset
    /\ Raise("RuntimeError")
    /\ Quiet
    /\ UNCHANGED <<session, device, now, cycles, hist>>

\* try: await self._update_from_installer_endpoint() except httpx.HTTPError: pass
DetectTryInstaller ==
    /\ AtTop("detect_model", "typed")
    /\ endpoint_type # Unset
    /\ Goto(Call("try_installer", GroupFrame("_update_from_installer_endpoint")))
    /\ Quiet
    /\ UNCHANGED <<session, device, now, cycles, hist>>

\* if self.endpoint_production_power: self.installer_access = True
DetectInstaller ==
    /\ AtTop("detect_model", "try_installer")
    /\ installer_access' =
          IF cache["endpoint_production_power"] # None THEN TRUE ELSE installer_access
    /\ Return(NoRet)
    /\ Quiet
    /\ UNCHANGED <<token, header, cookies, endpoint_type, isMeteringEnabled,
                   get_inverters, cache, buffer, device, now, cycles, hist>>

\* The class and the flags detect_model decides on.
Detected == <<endpoint_type, isMeteringEnabled, installer_access>>

\* A call of detect_model from outside the reader.
DetectCall ==
    /\ ~Running
    /\ cycles < MaxCycles
    /\ cycles' = cycles + 1
    /\ stack' = << Frame("detect_model", "start") >>
    /\ outcome' = "running"
    /\ ret' = NoRet
    /\ hist' = [NoHist EXCEPT !.mode = "detect_model", !.before = Detected]
    /\ Quiet
    /\ UNCHANGED <<session, device, now>>

ModelDetector ==
    \/ DetectStart \/ DetectSecure \/ DetectModelS \/ DetectSetS \/ DetectTryP
    \/ DetectModelC \/ DetectUnknown \/ DetectTryInstaller \/ DetectInstaller

Orchestrator ==
    \/ GroupCall \/ GroupReturn \/ UpdateEndpointRaise \/ UpdateEndpointStore
    \/ UpdateStep \/ UpdateReturn

---------------------------------------------------------------------------
(* getData *)

\* An expiry check without the refresh margin.
IsTokenExpiredNoBuffer(t) == ~(now < TokenExp(t))

\* _is_enphase_token_expired: exp_epoch -= self.token_refresh_buffer_seconds;
\* if datetime.datetime.now() < exp_time: return False, else: return True
IsTokenExpired(t) == ~(now < TokenExp(t) - buffer)

GetDataCall ==
    /\ ~Running
    /\ cycles < MaxCycles
    /\ cycles' = cycles + 1
    /\ \E getInverters \in BOOLEAN :
          stack' = << [fn |-> "getData", pc |-> "token", getInverters |-> getInverters] >>
    /\ outcome' = "running"
    /\ ret' = NoRet
    /\ hist' = [NoHist EXCEPT !.entryToken = token]
    /\ Quiet
    /\ UNCHANGED <<session, device, now>>

\* if self._token == "": await self._getEnphaseToken()
\* else: if self._is_enphase_token_expired(self._token): await self._getEnphaseToken()
GetDataToken ==
    /\ AtTop("getData", "token")
    /\ IF token = 0 \/ IsTokenExpired(token)
       THEN Goto(Call("dispatch", Frame("_getEnphaseToken", "start")))
       ELSE Goto(SetTop([Top EXCEPT !.pc = "dispatch"]))
    /\ Quiet
    /\ UNCHANGED <<session, device, now, cycles, hist>>

\* A getData that detects the model in every call.
NeedsDetectionAlways == TRUE

\* if not self.endpoint_type:
NeedsDetection == endpoint_type = Unset

\* if not self.endpoint_type: await self.detect_model() else: await self._update()
GetDataDispatch ==
    /\ AtTop("getData", "dispatch")
    /\ IF NeedsDetection
       THEN /\ Goto(Call("inverters", Frame("detect_model", "start")))
            /\ hist' = [hist EXCEPT !.mode = "detect_model"]
       ELSE /\ Goto(Call("inverters", Frame("_update", "pc")))
            /\ hist' = [hist EXCEPT !.mode = "_update"]
    /\ Quiet
    /\ UNCHANGED <<session, device, now, cycles>>

\* A getData that goes by the argument of the call alone.
SkipsInvertersByCall(getInverters) == ~getInverters

\* if not self.get_inverters or not getInverters:
SkipsInverters(getInverters) == ~get_inverters \/ ~getInverters

\* if not self.get_inverters or not getInverters: return; else the fetch of
\* the inverter-detail endpoint
GetDataInverters ==
    /\ AtTop("getData", "inverters")
    /\ IF SkipsInverters(Top.getInverters)
       THEN Return(NoRet) /\ hist' = hist
       ELSE /\ Goto(Call("response", FetchFrame(ENDPOINT_URL_PRODUCTION_INVERTERS)))
            /\ hist' = [hist EXCEPT !.data = TRUE]
    /\ Quiet
    /\ UNCHANGED <<session, device, now, cycles>>

\* A reader that takes a 401 of the inverter endpoint like any other answer.
InverterAuthFailureNever(response) == FALSE

\* if response.status_code == 401: response.raise_for_status()
InverterAuthFailure(response) == response.status = 401

\* response.text of None (an argument of the debug log), or the 401
GetDataRaise ==
    /\ AtTop("getData", "response")
    /\ ret.resp = None \/ InverterAuthFailure(ret.resp)
    /\ Raise(IF ret.resp = None THEN "AttributeError" ELSE "HTTPStatusError")
    /\ Quiet
    /\ UNCHANGED <<session, device, now, cycles, hist>>

\* self.endpoint_production_inverters = response
GetDataStore ==
    /\ AtTop("getData", "response")
    /\ ret.resp # None /\ ~InverterAuthFailure(ret.resp)
    /\ cache' = [cache EXCEPT !["endpoint_production_inverters"] = ret.resp]
    /\ Return(NoRet)
    /\ Quiet
    /\ UNCHANGED <<token, header, cookies, endpoint_type, isMeteringEnabled,
                   installer_access, get_inverters, buffer, device, now, cycles, hist>>

GetData ==
    \/ GetDataCall \/ GetDataToken \/ GetDataDispatch \/ GetDataInverters
    \/ GetDataRaise \/ GetDataStore

\* Time passes between two calls (the clock counts from the first call).
Tick ==
    /\ ~Running
    /\ cycles > 0
    /\ now < MaxTime
    /\ now' = now + 1
    /\ UNCHANGED <<stack, ret, outcome, session, device, cycles, faultsLeft, reqCount, ev, hist>>

\* The host, whose first refresh ended on an authentication failure, turns
\* the inverter detail off before it refreshes again.
\* except ConfigEntryAuthFailed: envoy_reader.get_inverters = False
HostDisablesInverters ==
    /\ ~Running
    /\ outcome = "HTTPStatusError"
    /\ get_inverters
    /\ get_inverters' = FALSE
    /\ UNCHANGED <<stack, ret, outcome, token, header, cookies, endpoint_type,
                   isMeteringEnabled, installer_access, cache, buffer, device,
                   now, cycles, faultsLeft, reqCount, ev, hist>>

---------------------------------------------------------------------------
(* The metric extractors.  They read the cache and make no request.  The    *)
(* body of a cached response is a text; json() decodes it.  A JSON number n *)
(* is kept as the integer 10 * n, so that 300.7 is 3007 and int() has a     *)
(* fraction to drop.                                                        *)

\* {"production":[{},{"wNow":500,"lines":[{"wNow":100},{"wNow":200},{"wNow":200}]}]}
ExampleCombined ==
    [production |-> << <<>>,
                       [wNow |-> 5000,
                        lines |-> << [wNow |-> 1000], [wNow |-> 2000], [wNow |-> 2000] >>] >>]

\* {"wattsNow": 300}
ExampleProductionOnly == [wattsNow |-> 3000]

\* A combined document of a gateway with metering set up.
MeteredCombined ==
    [production |-> << [wNow |-> 1235, activeCount |-> 10],
                       [wNow |-> 4567, activeCount |-> 10, whToday |-> 90000,
                        lines |-> << [wNow |-> 1111, whToday |-> 20001, whLifetime |-> 300001],
                                     [wNow |-> 1222, whToday |-> 20002, whLifetime |-> 300002],
                                     [wNow |-> 2234, whToday |-> 50003, whLifetime |-> 300003] >>] >>,
     consumption |-> << [wNow |-> 7009, whToday |-> 80000,
                         whLastSevenDays |-> 500000, whLifetime |-> 9000000,
                         lines |-> << [wNow |-> 3001, whToday |-> 30001, whLifetime |-> 2000001],
                                      [wNow |-> 3002, whToday |-> 30012, whLifetime |-> 3000002],
                                      [wNow |-> 1006, whToday |-> 19987, whLifetime |-> 3999997] >>] >>]

\* A combined document of a gateway without metering.
UnmeteredCombined ==
    [production |-> << [wNow |-> 1235, activeCount |-> 10],
                       [wNow |-> 0, activeCount |-> 0] >>,
     consumption |-> << [wNow |-> 0, whToday |-> 0,
                         whLastSevenDays |-> 0, whLifetime |-> 0] >>]

\* A combined document of a gateway with metering and with batteries.
BatteryCombined ==
    [production |-> << [wNow |-> 1235, activeCount |-> 10],
                       [wNow |-> 4567, activeCount |-> 10, whToday |-> 90000] >>,
     consumption |-> << [wNow |-> 7009, whToday |-> 80000,
                         whLastSevenDays |-> 500000, whLifetime |-> 9000000] >>,
     storage |-> << [type |-> "acb", activeCount |-> 20, percentFull |-> 870] >>]

\* A combined document whose storage section has an entry without a charge.
NoBatteryCombined ==
    [production |-> << [wNow |-> 1235, activeCount |-> 10],
                       [wNow |-> 0, activeCount |-> 0] >>,
     storage |-> << [type |-> "acb", activeCount |-> 0] >>]

\* A combined document whose storage section is an empty list.
EmptyStorageCombined ==
    [production |-> << [wNow |-> 1235, activeCount |-> 10] >>, storage |-> << >>]

\* ivp/ensemble/inventory of a gateway with Encharge batteries.
EnsembleInventory ==
    << [type |-> "ENCHARGE", devices |-> << [serial_num |-> "301", percentFull |-> 550] >>] >>

\* ivp/ensemble/inventory with an entry that lists no devices.
EnsembleNoDevices == << [type |-> "ENPOWER"] >>

\* home.json of a gateway with an Enpower switch.
HomeDocument ==
    [software_build_epoch |-> 16870000, update_status |-> "satisfied",
     enpower |-> [connected |-> TRUE, grid_status |-> "closed"]]

\* home.json with an update status and no build epoch.
HomeNoEpoch == [update_status |-> "satisfied", enpower |-> [connected |-> FALSE]]

\* home.json with neither.
HomePlain == [timezone |-> "Europe/Amsterdam"]

\* ivp/mod/603980032/mode/power
PowerOn == [powerForcedOff |-> FALSE]

PowerOff == [powerForcedOff |-> TRUE]

\* api/v1/production/inverters
InvertersDocument ==
    << [serialNumber |-> "121", lastReportWatts |-> 2400, lastReportDate |-> 17000000],
       [serialNumber |-> "123", lastReportWatts |-> 10, lastReportDate |-> 17000600] >>

\* api/v1/production/inverters with an entry that has no reading.
InvertersNoWatts ==
    << [serialNumber |-> "121", lastReportWatts |-> 2400, lastReportDate |-> 17000000],
       [serialNumber |-> "123", lastReportDate |-> 17000600] >>

\* The columns of the pcu table and of the nsrb table of ivp/peb/devstatus.
PcuFields == <<"serialNumber", "devType", "communicating", "reportDate", "acPowerINmW">>

NsrbFields == <<"serialNumber", "relay", "forced", "reason_code", "reason">>

\* The rows of the two tables, for a device of the pcu table (its serial and
\* its type) and for a relay of the nsrb table (its serial).
PcuRow(dev) == <<dev[1], 10 * dev[2], TRUE, 17000000, 1234560>>

NsrbRow(serial) == <<serial, "closed", FALSE, 0, "ok">>

\* ivp/peb/devstatus of the gateway.
DevstatusDocument ==
    [pcu |-> [fields |-> PcuFields,
              values |-> [i \in DOMAIN device.pcu |-> PcuRow(device.pcu[i])]],
     nsrb |-> [fields |-> NsrbFields,
               values |-> [i \in DOMAIN device.nsrb |-> NsrbRow(device.nsrb[i])]]]

\* The same without the nsrb table.
DevstatusNoNsrb ==
    [pcu |-> [fields |-> PcuFields,
              values |-> [i \in DOMAIN device.pcu |-> PcuRow(device.pcu[i])]]]

\* A pcu table with serial numbers and no device types.
DevstatusNoDevType ==
    [pcu |-> [fields |-> <<"serialNumber", "communicating">>,
              values |-> << <<"121", TRUE>>, <<"122", FALSE>> >>],
     nsrb |-> [fields |-> NsrbFields, values |-> << NsrbRow("122") >>]]

\* A pcu table with no serial numbers.
DevstatusNoSerial ==
    [pcu |-> [fields |-> <<"devType", "communicating">>,
              values |-> << <<10, TRUE>>, <<120, FALSE>> >>],
     nsrb |-> [fields |-> <<"relay">>, values |-> << <<"closed">> >>]]

\* A pcu table with a row that ends before its last columns.
DevstatusShortRow ==
    [pcu |-> [fields |-> PcuFields,
              values |-> << PcuRow(<<"121", 1>>), <<"122", 120>>, <<"123", 10>> >>],
     nsrb |-> [fields |-> NsrbFields, values |-> << >>]]

\* A document with neither table.
DevstatusNoTables == [counters |-> [pcu |-> [expected |-> 0]]]

\* A production-only document.
ProductionOnlyDocument ==
    [wattsNow |-> 3007, wattHoursToday |-> 12345,
     wattHoursSevenDays |-> 99999, wattHoursLifetime |-> 1000009]

\* A combined document whose production section has one entry without
\* power, and whose consumption section is empty.
ShortCombined == [production |-> << [activeCount |-> 0] >>, consumption |-> << >>]

\* The texts a cached response can hold: those the gateways of Shapes give,
\* the two examples, a short combined document, {} and a page that is not JSON.
Texts == Shapes \cup {"example_combined", "example_production_only", "short", "{}", "html"}

\* The texts of the other documents.
StorageTexts == {"battery", "no_battery", "empty_storage"}

EnsembleTexts == {"ensemble", "ensemble_no_devices", "[]"}

HomeTexts == {"home", "home_no_epoch", "home_plain"}

PowerTexts == {"power_on", "power_off"}

InvertersTexts == {"inverters", "inverters_no_watts", "[]"}

\* The devstatus documents whose tables are those of the gateway, and those
\* that are the same for every gateway.
TableTexts == {"devstatus", "devstatus_no_nsrb"}

DevstatusTexts ==
    {"devstatus_no_devtype", "devstatus_no_serial", "devstatus_short_row",
     "devstatus_no_tables"}

IsJson(text) == text # "html"

\* The document of a text is a list; the others are objects.
IsList(text) == text \in EnsembleTexts \cup InvertersTexts

\* response.json(), for a text that is JSON
json(text) ==
    CASE text = "pcm" -> MeteredCombined
      [] text = "pcu" -> UnmeteredCombined
      [] text = "plain" -> ProductionOnlyDocument
      [] text = "example_combined" -> ExampleCombined
      [] text = "example_production_only" -> ExampleProductionOnly
      [] text = "short" -> ShortCombined
      [] text = "battery" -> BatteryCombined
      [] text = "no_battery" -> NoBatteryCombined
      [] text = "empty_storage" -> EmptyStorageCombined
      [] text = "ensemble" -> EnsembleInventory
      [] text = "ensemble_no_devices" -> EnsembleNoDevices
      [] text = "home" -> HomeDocument
      [] text = "home_no_epoch" -> HomeNoEpoch
      [] text = "home_plain" -> HomePlain
      [] text = "power_on" -> PowerOn
      [] text = "power_off" -> PowerOff
      [] text = "inverters" -> InvertersDocument
      [] text = "inverters_no_watts" -> InvertersNoWatts
      [] text = "devstatus" -> DevstatusDocument
      [] text = "devstatus_no_nsrb" -> DevstatusNoNsrb
      [] text = "devstatus_no_devtype" -> DevstatusNoDevType
      [] text = "devstatus_no_serial" -> DevstatusNoSerial
      [] text = "devstatus_short_row" -> DevstatusShortRow
      [] text = "devstatus_no_tables" -> DevstatusNoTables
      [] OTHER -> << >>

\* int(x): the fraction is dropped, towards zero
int(x) == IF x >= 0 THEN x \div 10 ELSE -((-x) \div 10)

\* What a call of an extractor comes to: the value it returns, or the
\* exception it raises.
Returns(v) == [exc |-> "ok", value |-> v]

Raises(e) == [exc |-> e, value |-> 0]

message_consumption_not_available ==
    "Consumption data not available for your Envoy device."

\* The letters of a class, for Python's substring test.
Letters(t) == IF t = ENVOY_MODEL_S THEN <<"P", "C">> ELSE <<"P">>

\* needle in hay, of two strings
Contains(hay, needle) ==
    \E i \in 0..(Len(hay) - Len(needle)) : SubSeq(hay, i + 1, i + Len(needle)) = needle

\* raw_json[section][idx][key] of the cached response r, and int() of it
Reading(r, section, idx, key) ==
    IF r.status = 0 THEN Raises("AttributeError")
    ELSE IF ~IsJson(r.body) THEN Raises("JSONDecodeError")
    ELSE LET raw_json == json(r.body)
         IN  IF section \notin DOMAIN raw_json THEN Raises("KeyError")
             ELSE IF idx + 1 > Len(raw_json[section]) THEN Raises("IndexError")
             ELSE IF key \notin DOMAIN raw_json[section][idx + 1] THEN Raises("KeyError")
             ELSE Returns(int(raw_json[section][idx + 1][key]))

\* raw_json[key] of the cached response r, and int() of it
TopReading(r, key) ==
    IF r.status = 0 THEN Raises("AttributeError")
    ELSE IF ~IsJson(r.body) THEN Raises("JSONDecodeError")
    ELSE LET raw_json == json(r.body)
         IN  IF key \notin DOMAIN raw_json THEN Raises("KeyError")
             ELSE Returns(int(raw_json[key]))

\* A production() that reads the other entry.
ProductionIndexSwapped == IF isMeteringEnabled THEN 0 ELSE 1

\* idx = 1 if self.isMeteringEnabled else 0
ProductionIndex == IF isMeteringEnabled THEN 1 ELSE 0

\* production(): with no class, the local it returns was never bound.
production ==
    IF endpoint_type = ENVOY_MODEL_S
    THEN Reading(cache["endpoint_production_json_results"], "production",
                 ProductionIndex, "wNow")
    ELSE IF endpoint_type = ENVOY_MODEL_C
    THEN TopReading(cache["endpoint_production_v1_results"], "wattsNow")
    ELSE Raises("UnboundLocalError")

\* A reader that takes every gateway to report consumption.
ConsumptionUnavailableNever == FALSE

\* if self.endpoint_type in ENVOY_MODEL_C:
ConsumptionUnavailable == Contains(Letters(ENVOY_MODEL_C), Letters(endpoint_type))

\* consumption(), daily_consumption(), seven_days_consumption() and
\* lifetime_consumption(), which differ in the key they read; with no class
\* the substring test has None on its left.
ConsumptionReading(key) ==
    IF endpoint_type = Unset THEN Raises("TypeError")
    ELSE IF ConsumptionUnavailable THEN Returns(message_consumption_not_available)
    ELSE Reading(cache["endpoint_production_json_results"], "consumption", 0, key)

consumption == ConsumptionReading("wNow")

daily_consumption == ConsumptionReading("whToday")

seven_days_consumption == ConsumptionReading("whLastSevenDays")

lifetime_consumption == ConsumptionReading("whLifetime")

\* return None
ReturnsNone == [exc |-> "ok", value |-> 0, none |-> TRUE]

Phases == {"l1", "l2", "l3"}

\* phase_map, by the end of its keys
phase_map == [l1 |-> 0, l2 |-> 1, l3 |-> 2]

\* The try block of a per-phase extractor:
\* int(raw_json[section][idx]["lines"][line][key]), None on KeyError and on
\* IndexError.
LineReading(raw_json, section, idx, line, key) ==
    IF \/ section \notin DOMAIN raw_json
       \/ idx + 1 > Len(raw_json[section])
       \/ "lines" \notin DOMAIN raw_json[section][idx + 1]
       \/ line + 1 > Len(raw_json[section][idx + 1].lines)
       \/ key \notin DOMAIN raw_json[section][idx + 1].lines[line + 1]
    THEN ReturnsNone
    ELSE Returns(int(raw_json[section][idx + 1].lines[line + 1][key]))

\* raw_json = self.endpoint_production_json_results.json(), which is before
\* the try block, and the try block.
PhaseReading(section, idx, line, key) ==
    LET r == cache["endpoint_production_json_results"]
    IN  IF r.status = 0 THEN Raises("AttributeError")
        ELSE IF ~IsJson(r.body) THEN Raises("JSONDecodeError")
        ELSE LineReading(json(r.body), section, idx, line, key)

production_phase(phase) ==
    IF endpoint_type = ENVOY_MODEL_S
    THEN PhaseReading("production", ProductionIndex, phase_map[phase], "wNow")
    ELSE ReturnsNone

\* The per-phase consumption extractors; with no class the substring test
\* has None on its left.
ConsumptionPhaseReading(line, key) ==
    IF endpoint_type = Unset THEN Raises("TypeError")
    ELSE IF ConsumptionUnavailable THEN ReturnsNone
    ELSE PhaseReading("consumption", 0, line, key)

consumption_phase(phase) == ConsumptionPhaseReading(phase_map[phase], "wNow")

daily_production_phase(phase) ==
    IF endpoint_type = ENVOY_MODEL_S /\ isMeteringEnabled
    THEN PhaseReading("production", ProductionIndex, phase_map[phase], "whToday")
    ELSE ReturnsNone

\* return int(raw_json["consumption"][0]["lines"][0]["whToday"])
daily_consumption_phase(phase) == ConsumptionPhaseReading(0, "whToday")

lifetime_production_phase(phase) ==
    IF endpoint_type = ENVOY_MODEL_S /\ isMeteringEnabled
    THEN PhaseReading("production", ProductionIndex, phase_map[phase], "whLifetime")
    ELSE ReturnsNone

lifetime_consumption_phase(phase) ==
    ConsumptionPhaseReading(phase_map[phase], "whLifetime")

\* A reader whose extractors drop the responses once they are read.
ExtractAndDrop(fn, arg, result) ==
    /\ ~Running
    /\ ret' = result
    /\ outcome' = result.exc
    /\ hist' = [NoHist EXCEPT !.mode = fn, !.arg = arg]
    /\ cache' = [a \in Attrs |-> None]
    /\ UNCHANGED <<stack, token, header, cookies, endpoint_type, isMeteringEnabled,
                   installer_access, get_inverters, buffer, device, now, cycles,
                   faultsLeft, reqCount, ev>>

\* A call of the extractor fn with the argument arg from outside the reader,
\* which comes to result.
ExtractWith(fn, arg, result) ==
    /\ ~Running
    /\ ret' = result
    /\ outcome' = result.exc
    /\ hist' = [NoHist EXCEPT !.mode = fn, !.arg = arg]
    /\ UNCHANGED <<stack, session, device, now, cycles, faultsLeft, reqCount, ev>>

\* A call of the extractor fn, which takes no argument.
Extract(fn, result) == ExtractWith(fn, "none", result)

message_battery_not_available ==
    "Battery storage data not available for your Envoy device."

message_grid_status_not_available ==
    "Grid status not available for your Envoy device."

message_production_power_not_available ==
    "Production power status not available for your Envoy device."

\* time.strftime("%Y-%m-%d %H:%M:%S", time.localtime(value)): the text of
\* the second that value falls in.
FormatTime(value) == [format |-> "%Y-%m-%d %H:%M:%S", second |-> int(value)]

\* inverters_production(): every failure inside its try block gives None.
inverters_production ==
    LET r == cache["endpoint_production_inverters"]
    IN  IF r.status = 0 \/ ~IsJson(r.body) THEN ReturnsNone
        ELSE LET items == json(r.body)
             IN  IF ~IsList(r.body)
                 THEN \* the items of an object are its keys: item["serialNumber"]
                      \* of a string is a TypeError
                      IF DOMAIN items = {} THEN Returns(<< >>) ELSE ReturnsNone
                 ELSE IF \E i \in DOMAIN items :
                        {"serialNumber", "lastReportWatts", "lastReportDate"}
                            \ DOMAIN items[i] # {}
                 THEN ReturnsNone
                 ELSE Returns(
                        [serial \in { items[i].serialNumber : i \in DOMAIN items } |->
                           LET last == CHOOSE i \in DOMAIN items :
                                          /\ items[i].serialNumber = serial
                                          /\ \A j \in DOMAIN items :
                                                 items[j].serialNumber = serial => j <= i
                           IN  [watt |-> items[last].lastReportWatts,
                                report_date |-> FormatTime(items[last].lastReportDate)]])

\* The lines of battery_storage() after raw_json is read: the ENCHARGE
\* batteries of the ensemble inventory, where there are any.
EnsembleReading ==
    LET e == cache["endpoint_ensemble_json_results"]
    IN  IF e.status = 0 THEN Returns(message_battery_not_available)
        ELSE IF ~IsJson(e.body) THEN Raises("JSONDecodeError")
        ELSE LET ensemble_json == json(e.body)
             IN  IF ~IsList(e.body)
                 THEN \* ensemble_json[0] of an object that is not empty
                      IF DOMAIN ensemble_json = {}
                      THEN Returns(message_battery_not_available)
                      ELSE Raises("KeyError")
                 ELSE IF Len(ensemble_json) > 0 /\ "devices" \in DOMAIN ensemble_json[1]
                 THEN Returns(ensemble_json[1].devices)
                 ELSE Returns(message_battery_not_available)

\* battery_storage(): its try block holds the json() call alone.
battery_storage ==
    LET r == cache["endpoint_production_json_results"]
    IN  IF r.status = 0 THEN Raises("AttributeError")
        ELSE IF ~IsJson(r.body) THEN ReturnsNone
        ELSE LET raw_json == json(r.body)
             IN  IF "storage" \notin DOMAIN raw_json THEN Raises("KeyError")
                 ELSE IF Len(raw_json.storage) = 0 THEN Raises("IndexError")
                 ELSE IF "percentFull" \notin DOMAIN raw_json.storage[1]
                 THEN EnsembleReading
                 ELSE Returns(raw_json.storage[1])

grid_status ==
    LET r == cache["endpoint_home_json_results"]
    IN  IF r.status = 0 THEN Returns(message_grid_status_not_available)
        ELSE IF ~IsJson(r.body) THEN Raises("JSONDecodeError")
        ELSE LET home_json == json(r.body)
             IN  IF /\ "enpower" \in DOMAIN home_json
                    /\ "grid_status" \in DOMAIN home_json.enpower
                 THEN Returns(home_json.enpower.grid_status)
                 ELSE Returns(message_grid_status_not_available)

production_power ==
    LET r == cache["endpoint_production_power"]
    IN  IF r.status = 0 THEN Returns(message_production_power_not_available)
        ELSE IF ~IsJson(r.body) THEN Raises("JSONDecodeError")
        ELSE LET power_json == json(r.body)
             IN  IF "powerForcedOff" \in DOMAIN power_json
                 THEN Returns(~power_json.powerForcedOff)
                 ELSE Returns(message_production_power_not_available)

\* firmware_data(): a response is true, whatever its status.
firmware_data ==
    LET r == cache["endpoint_home_json_results"]
    IN  IF r.status = 0 THEN ReturnsNone
        ELSE IF ~IsJson(r.body) THEN Raises("JSONDecodeError")
        ELSE LET home_json == json(r.body)
             IN  IF "update_status" \notin DOMAIN home_json THEN ReturnsNone
                 ELSE IF "software_build_epoch" \notin DOMAIN home_json
                 THEN Raises("KeyError")
                 ELSE Returns([update_status |-> home_json.update_status,
                               software_build_epoch |-> home_json.software_build_epoch])

\* field in fields, of a list
Has(fields, field) == \E i \in DOMAIN fields : fields[i] = field

\* fields.index(field), where field is in fields
index(fields, field) ==
    (CHOOSE i \in DOMAIN fields :
        fields[i] = field /\ \A j \in 1..(i - 1) : fields[j] # field) - 1

\* The columns that inverters_status(), and the two loops of relay_status(),
\* copy into an entry.
InverterFields ==
    {"communicating", "producing", "reportDate", "temperature", "dcVoltageINmV",
     "dcCurrentINmA", "acVoltageINmV", "acPowerINmW"}

RelayFields == {"communicating", "reportDate"}

NsrbRelayFields == {"relay", "forced", "reason_code", "reason"}

\* The key of an entry that a column is copied to.
EntryKey(field) ==
    CASE field = "reportDate" -> "report_date"
      [] field = "dcVoltageINmV" -> "dc_voltage"
      [] field = "dcCurrentINmA" -> "dc_current"
      [] field = "acVoltageINmV" -> "ac_voltage"
      [] field = "acPowerINmW" -> "ac_power"
      [] OTHER -> field

\* int(value) / 1000, as a fraction
Thousandths(value) == [num |-> int(value), den |-> 1000]

\* What is copied for a column: the text of the time, the milli units in
\* units, or the value as it is.
EntryValue(field, value) ==
    CASE field = "reportDate" -> FormatTime(value)
      [] field \in {"dcVoltageINmV", "dcCurrentINmA", "acVoltageINmV", "acPowerINmW"} ->
            Thousandths(value)
      [] OTHER -> value

\* The entry of a row: the columns of wanted that the table has.
Entry(fields, item, wanted) ==
    [key \in { EntryKey(f) : f \in { g \in wanted : Has(fields, g) } } |->
        LET field == CHOOSE f \in wanted : Has(fields, f) /\ EntryKey(f) = key
        IN  EntryValue(field, item[index(fields, field) + 1])]

\* A reader that takes no row for a relay.
IsRelayNever(fields, item) == FALSE

\* item[devstatus["pcu"]["fields"].index("devType")] == 12
IsRelay(fields, item) == item[index(fields, "devType") + 1] = 10 * RelayDevType

\* The rows of a table that a loop goes on with: those of the inverters,
\* those of the relays, or (the nsrb table) all of them.
Kept(table, loop) ==
    { i \in DOMAIN table.values :
        \/ loop = "nsrb"
        \/ loop = "inverters" /\ ~IsRelay(table.fields, table.values[i])
        \/ loop = "relays" /\ IsRelay(table.fields, table.values[i]) }

\* item[...] is past the end of the row, for one of the columns names
Short(fields, item, names) ==
    \E f \in names : Has(fields, f) /\ index(fields, f) + 1 > Len(item)

\* How a loop over the rows of a table ends: "ok", or by the exception that
\* its first failing statement raises.
LoopEnd(devstatus, name, loop, wanted) ==
    IF name \notin DOMAIN devstatus THEN "KeyError"
    ELSE IF "values" \notin DOMAIN devstatus[name] THEN "KeyError"
    ELSE IF Len(devstatus[name].values) = 0 THEN "ok"
    ELSE IF "fields" \notin DOMAIN devstatus[name] THEN "KeyError"
    ELSE LET table == devstatus[name]
         IN  IF ~Has(table.fields, "serialNumber") THEN "ok"
             ELSE IF loop # "nsrb" /\ ~Has(table.fields, "devType") THEN "ValueError"
             ELSE IF \E i \in DOMAIN table.values :
                        \/ loop # "nsrb" /\ Short(table.fields, table.values[i], {"devType"})
                        \/ /\ ~Short(table.fields, table.values[i], {"devType"})
                           /\ i \in Kept(table, loop)
                           /\ Short(table.fields, table.values[i],
                                    {"serialNumber"} \cup wanted)
             THEN "IndexError"
             ELSE "ok"

\* response_dict after a loop that ended "ok": for every serial of the rows
\* the loop went on with, the entry of the last of them.
RollUp(devstatus, name, loop, wanted) ==
    IF Len(devstatus[name].values) = 0 \/ ~Has(devstatus[name].fields, "serialNumber")
    THEN << >>
    ELSE LET table == devstatus[name]
             kept == Kept(table, loop)
             serialOf(i) == table.values[i][index(table.fields, "serialNumber") + 1]
         IN  [serial \in { serialOf(i) : i \in kept } |->
                LET last == CHOOSE i \in kept :
                               /\ serialOf(i) = serial
                               /\ \A j \in kept : serialOf(j) = serial => j <= i
                IN  Entry(table.fields, table.values[last], wanted)]

\* except (JSONDecodeError, KeyError, IndexError, TypeError, AttributeError)
RollUpCaught == {"JSONDecodeError", "KeyError", "IndexError", "TypeError", "AttributeError"}

\* What a roll-up comes to when its try block ends by the exception exc.
RollUpFails(exc) == IF exc \in RollUpCaught THEN ReturnsNone ELSE Raises(exc)

inverters_status ==
    LET r == cache["endpoint_devstatus"]
    IN  IF r.status = 0 THEN RollUpFails("AttributeError")
        ELSE IF ~IsJson(r.body) THEN RollUpFails("JSONDecodeError")
        ELSE LET devstatus == json(r.body)
                 end == LoopEnd(devstatus, "pcu", "inverters", InverterFields)
             IN  IF end # "ok" THEN RollUpFails(end)
                 ELSE Returns(RollUp(devstatus, "pcu", "inverters", InverterFields))

\* response_dict of relay_status() after its first loop.
relay_pcu(devstatus) == RollUp(devstatus, "pcu", "relays", RelayFields)

\* A relay_status() whose second loop adds to the entry the first has made.
RelayEntryMerged(pcu, nsrb, serial) ==
    IF serial \notin DOMAIN nsrb THEN pcu[serial]
    ELSE IF serial \notin DOMAIN pcu THEN nsrb[serial]
    ELSE [key \in DOMAIN pcu[serial] \cup DOMAIN nsrb[serial] |->
            IF key \in DOMAIN nsrb[serial] THEN nsrb[serial][key] ELSE pcu[serial][key]]

\* response_dict[serial] = {}, before the columns of the nsrb row are copied
RelayEntry(pcu, nsrb, serial) ==
    IF serial \in DOMAIN nsrb THEN nsrb[serial] ELSE pcu[serial]

\* relay_status(): the second loop starts the entry of a serial anew.
relay_status ==
    LET r == cache["endpoint_devstatus"]
    IN  IF r.status = 0 THEN RollUpFails("AttributeError")
        ELSE IF ~IsJson(r.body) THEN RollUpFails("JSONDecodeError")
        ELSE LET devstatus == json(r.body)
                 end1 == LoopEnd(devstatus, "pcu", "relays", RelayFields)
                 end2 == LoopEnd(devstatus, "nsrb", "nsrb", NsrbRelayFields)
             IN  IF end1 # "ok" THEN RollUpFails(end1)
                 ELSE IF end2 # "ok" THEN RollUpFails(end2)
                 ELSE LET pcu == relay_pcu(devstatus)
                          nsrb == RollUp(devstatus, "nsrb", "nsrb", NsrbRelayFields)
                      IN  Returns([serial \in DOMAIN pcu \cup DOMAIN nsrb |->
                                     RelayEntry(pcu, nsrb, serial)])

\* What the gateway can answer to a PUT.
PutAnswers == {TransportError} \cup { Resp(st, "plain", 0) : st \in Statuses }

\* A reader that sends the state it is asked for as the forced-off value.
power_forced_off_as_asked(power_on) == IF power_on THEN 1 ELSE 0

\* power_forced_off = 0 if power_on else 1
power_forced_off(power_on) == IF power_on THEN 0 ELSE 1

\* _async_put: one request, whose transport error is raised again.
Put(url, data, ans) ==
    /\ ev' = [kind |-> "put", url |-> url, ans |-> ans, data |-> data]
    /\ outcome' = IF ans = TransportError THEN "TransportError" ELSE "ok"

\* A call of set_production_power(power_on) from outside the reader.
SetProductionPower ==
    /\ ~Running
    /\ cycles < MaxCycles
    /\ cycles' = cycles + 1
    /\ \E power_on \in BOOLEAN :
          /\ hist' = [NoHist EXCEPT !.mode = "set_production_power", !.arg = power_on]
          /\ IF cache["endpoint_production_power"] # None
             THEN \E ans \in PutAnswers :
                     Put(ENDPOINT_URL_PRODUCTION_POWER,
                         [length |-> 1, arr |-> <<power_forced_off(power_on)>>], ans)
             ELSE ev' = NoEv /\ outcome' = "ok"
    /\ ret' = NoRet
    /\ UNCHANGED <<stack, session, device, now, faultsLeft, reqCount>>

InvertersStatus == Extract("inverters_status", inverters_status)

RelayStatus == Extract("relay_status", relay_status)

InvertersProduction == Extract("inverters_production", inverters_production)

BatteryStorage == Extract("battery_storage", battery_storage)

GridStatus == Extract("grid_status", grid_status)

ProductionPower == Extract("production_power", production_power)

FirmwareData == Extract("firmware_data", firmware_data)

ProductionPhase ==
    \E phase \in Phases : ExtractWith("production_phase", phase, production_phase(phase))

ConsumptionPhase ==
    \E phase \in Phases : ExtractWith("consumption_phase", phase, consumption_phase(phase))

DailyProductionPhase ==
    \E phase \in Phases :
        ExtractWith("daily_production_phase", phase, daily_production_phase(phase))

DailyConsumptionPhase ==
    \E phase \in Phases :
        ExtractWith("daily_consumption_phase", phase, daily_consumption_phase(phase))

LifetimeProductionPhase ==
    \E phase \in Phases :
        ExtractWith("lifetime_production_phase", phase, lifetime_production_phase(phase))

LifetimeConsumptionPhase ==
    \E phase \in Phases :
        ExtractWith("lifetime_consumption_phase", phase, lifetime_consumption_phase(phase))

Production == Extract("production", production)

Consumption == Extract("consumption", consumption)

DailyConsumption == Extract("daily_consumption", daily_consumption)

SevenDaysConsumption == Extract("seven_days_consumption", seven_days_consumption)

LifetimeConsumption == Extract("lifetime_consumption", lifetime_consumption)

---------------------------------------------------------------------------
(* The reader after __init__, before its first call. *)

InitSession ==
    /\ stack = <<>>
    /\ ret = NoRet
    /\ outcome = "none"
    /\ token = 0
    /\ header = 0
    /\ cookies = 0
    /\ endpoint_type = Unset
    /\ isMeteringEnabled = FALSE
    /\ installer_access = FALSE
    /\ get_inverters = TRUE
    /\ cache = [a \in Attrs |-> None]
    /\ buffer \in Buffers
    /\ device \in Devices
    /\ now = 0
    /\ cycles = 0
    /\ reqCount = 0
    /\ ev = NoEv
    /\ hist = NoHist

\* The transport on its own: calls of check_connection against a gateway and
\* a cloud that may fail as often as FetchFaults allows.
InitFetch ==
    /\ InitSession
    /\ faultsLeft = FetchFaults
    /\ buffer = 0
    /\ device = [json |-> "plain", steady |-> FALSE]

Init == InitSession /\ faultsLeft = MaxFaults

Next == GetData \/ Tick \/ HostDisablesInverters \/ ModelDetector \/ Orchestrator \/ Transport \/ TokenManager

Spec == Init /\ [][Next]_vars

NextFetch == CheckConnectionCall \/ CheckConnectionReturn \/ Transport \/ TokenManager

SpecFetch == InitFetch /\ [][NextFetch]_vars

\* Model detection on its own: calls of detect_model against a steady
\* gateway, with a cloud that accepts every sign-in.
InitDetect ==
    /\ stack = <<>>
    /\ ret = NoRet
    /\ outcome = "none"
    /\ token = 0
    /\ header = 0
    /\ cookies = 0
    /\ endpoint_type = Unset
    /\ isMeteringEnabled = FALSE
    /\ installer_access = FALSE
    /\ get_inverters = TRUE
    /\ cache = [a \in Attrs |-> None]
    /\ buffer = 0
    /\ device \in SteadyDevices
    /\ now = 0
    /\ cycles = 0
    /\ reqCount = 0
    /\ ev = NoEv
    /\ hist = NoHist
    /\ faultsLeft = 0

NextDetect ==
    \/ DetectCall \/ ModelDetector
    \/ GroupCall \/ GroupReturn \/ UpdateEndpointRaise \/ UpdateEndpointStore
    \/ Transport
    \/ RefreshStart \/ RefreshRaise \/ RefreshValid \/ RefreshInvalid
    \/ GetTokenStart \/ GetTokenStore \/ GetTokenReturn
    \/ OwnerGetForm \/ OwnerPost \/ OwnerGetToken

SpecDetect == InitDetect /\ [][NextDetect]_vars

\* The responses an endpoint can have left in the cache: none, a 200 with
\* one of the texts, a 401 with a page.
Held(texts) ==
    {None, Resp(401, "html", 0)} \cup { Resp(200, t, 0) : t \in texts }

\* The class and the metering flag of a reader between two getData calls:
\* the flag is set only on the way to ProductionAndConsumption.
Classes ==
    { <<Unset, FALSE>>, <<ENVOY_MODEL_C, FALSE>>,
      <<ENVOY_MODEL_S, FALSE>>, <<ENVOY_MODEL_S, TRUE>> }

\* The serial numbers and the device types of the rows of a pcu table.
Serials == {"121", "122"}

DevTypes == {1, RelayDevType, 13}

\* The pcu tables, and the nsrb tables, a gateway can have.
PcuTables == UNION { [1..n -> Serials \X DevTypes] : n \in 0..MaxRows }

NsrbTables == UNION { [1..n -> Serials] : n \in 0..MaxNsrbRows }

NoCache == [a \in Attrs |-> None]

\* What the calls before can have left in the cache: the entries that the
\* extractors of one kind read, with nothing in the others.
TotalsCaches ==
    { [NoCache EXCEPT !["endpoint_production_json_results"] = c,
                      !["endpoint_production_v1_results"] = p] :
        c \in Held(Texts), p \in Held(Texts \ {"pcm", "pcu", "short"}) }

BatteryCaches ==
    { [NoCache EXCEPT !["endpoint_production_json_results"] = c,
                      !["endpoint_ensemble_json_results"] = e] :
        c \in Held(StorageTexts), e \in Held(EnsembleTexts) }

HomeCaches ==
    { [NoCache EXCEPT !["endpoint_home_json_results"] = h] : h \in Held(HomeTexts) }

InvertersCaches ==
    { [NoCache EXCEPT !["endpoint_production_inverters"] = r] : r \in Held(InvertersTexts) }

\* The installer entries hold a 200 or nothing.
PowerCaches ==
    { [NoCache EXCEPT !["endpoint_production_power"] = Resp(200, t, 0)] :
        t \in PowerTexts \cup {"{}", "html"} }

DevstatusCaches ==
    { [NoCache EXCEPT !["endpoint_devstatus"] = Resp(200, t, 0)] :
        t \in TableTexts \cup DevstatusTexts \cup {"html"} }

CachesHeld ==
    TotalsCaches \cup BatteryCaches \cup HomeCaches \cup InvertersCaches
        \cup PowerCaches \cup DevstatusCaches

\* The extractors on their own: a reader between two getData calls, with
\* whatever the calls before have left in the cache.
InitExtract ==
    /\ stack = <<>>
    /\ ret = NoRet
    /\ outcome = "none"
    /\ token = 1
    /\ header = 1
    /\ cookies = SessionCookies(1)
    /\ \E class \in Classes, held \in CachesHeld :
          /\ endpoint_type = class[1]
          /\ isMeteringEnabled = class[2]
          /\ cache = held
          /\ held \notin TotalsCaches => class = <<ENVOY_MODEL_S, TRUE>>
    /\ installer_access = FALSE
    /\ get_inverters = TRUE
    /\ buffer = 0
    /\ \E pcu \in PcuTables, nsrb \in NsrbTables :
          /\ device = [json |-> "plain", steady |-> FALSE, pcu |-> pcu, nsrb |-> nsrb]
          /\ cache["endpoint_devstatus"].body \notin TableTexts =>
                pcu = << >> /\ nsrb = << >>
    /\ now = 0
    /\ cycles = 1
    /\ reqCount = 0
    /\ ev = NoEv
    /\ hist = NoHist
    /\ faultsLeft = 0

NextExtract ==
    \/ Production \/ Consumption \/ DailyConsumption
    \/ SevenDaysConsumption \/ LifetimeConsumption
    \/ ProductionPhase \/ ConsumptionPhase
    \/ DailyProductionPhase \/ DailyConsumptionPhase
    \/ LifetimeProductionPhase \/ LifetimeConsumptionPhase
    \/ InvertersProduction \/ BatteryStorage \/ GridStatus
    \/ ProductionPower \/ FirmwareData
    \/ InvertersStatus \/ RelayStatus
    \/ SetProductionPower

SpecExtract == InitExtract /\ [][NextExtract]_vars

\* The reader in use: getData calls, and between them calls of
\* set_production_power and of the extractors (one of the totals, one of
\* the per-phase values, and every extractor of the other cache entries),
\* against a gateway and a cloud that may fail as often as MaxFaults allows.
InitUse == InitSession /\ faultsLeft = MaxFaults /\ buffer = 0

NextUse ==
    \/ Next
    \/ SetProductionPower
    \/ Production \/ ProductionPhase
    \/ InvertersProduction \/ BatteryStorage \/ GridStatus
    \/ ProductionPower \/ FirmwareData
    \/ InvertersStatus \/ RelayStatus

SpecUse == InitUse /\ [][NextUse]_vars

---------------------------------------------------------------------------
(* Properties of the retry loop of _async_fetch_with_retry (SpecFetch). *)

FETCH == "_async_fetch_with_retry"

\* The step is the GET of the innermost call of the retry loop, answered ans.
Gets(ans) ==
    /\ AtTop(FETCH, "get")
    /\ ev'.kind = "get"
    /\ ev'.ans = ans

\* The innermost call of the retry loop goes to its next attempt.
NextAttempt == stack' = SetTop([Top EXCEPT !.attempt = @ + 1, !.pc = "get"])

\* C1: one call of _async_fetch_with_retry makes at most 3 GETs: no call is
\* ever at a fourth attempt; a transport failure of the first or the second
\* GET is followed by the next attempt of the same call; a transport failure
\* of the third GET ends the call with the transport error, which goes to
\* the caller (and leaves the top-level call as TransportError when nothing
\* above catches it).
C1_ThreeAttempts ==
    [][ /\ \A i \in FetchFrames(stack') : stack'[i].attempt < 3
        /\ Gets(TransportError) =>
              IF Top.attempt < 2
              THEN NextAttempt
              ELSE /\ Len(stack') < Len(stack)
                   /\ ret' = NoRet
                   /\ stack' = <<>> => outcome' = "TransportError"
      ]_vars

\* The third GET of check_connection's fetch failed like the two before it,
\* and the call ended with the transport error.
C1_Witness ==
    /\ outcome = "TransportError"
    /\ ev.kind = "get"
    /\ ev.url = ENDPOINT_URL_PRODUCTION_V1
    /\ reqCount = 0
    /\ faultsLeft = FetchFaults - 3

\* C2: a 401 on the first or the second attempt starts the cookie refresh;
\* when the refresh returns, the full sign-in is started if and only if it
\* returned False; after the refresh (and the sign-in, if any) the URL is
\* requested again; a 401 on the third attempt is returned to the caller as
\* it is, with no refresh and no exception.
C2_RefreshOnUnauthorized ==
    [][ /\ \A ans \in GatewayAnswers(IF AtTop(FETCH, "get") THEN Top.url ELSE "") :
              (ans.status = 401 /\ Gets(ans)) =>
                  IF Top.attempt < 2
                  THEN stack' = Append(SetTop([Top EXCEPT !.pc = "could_refresh_cookies"]),
                                       Frame("_refresh_token_cookies", "start"))
                  ELSE /\ stack' = Rest
                       /\ ret' = Ret(FALSE, ans, 0)
                       /\ outcome' \in {"running", "ok"}
        /\ AtTop(FETCH, "could_refresh_cookies") =>
              IF ret.b
              THEN NextAttempt
              ELSE stack' = Append(SetTop([Top EXCEPT !.pc = "reauthenticated"]),
                                   Frame("_getEnphaseToken", "start"))
        /\ AtTop(FETCH, "reauthenticated") => NextAttempt
      ]_vars

\* check_connection got the third 401 of its fetch back, after a cookie
\* refresh that failed and the sign-in that followed it.
C2_Witness ==
    /\ AtTop("check_connection", "resp")
    /\ ret.resp.status = 401
    /\ hist.reauth

\* The requests of the sign-in: the form, the login POST, the token.
CloudRequests == 3

\* What the retry policy allows one fetch: 3 GETs, and after each of the
\* first two a refresh, which is at most one check of the token (3 GETs), one
\* sign-in and the check of the new token (3 GETs).
RetryPolicyBound ==
    RetryAttempts + ReauthAttempts * (RetryAttempts + CloudRequests + RetryAttempts)

\* C3: a call of _async_fetch_with_retry issues no more HTTP requests, those
\* of the refreshes it triggers included, than the retry policy allows.
C3_BoundedRequests == reqCount <= RetryPolicyBound

\* C28: a GET of the retry loop that is answered by a status other than 401
\* ends the call at once, at whatever attempt: with None for a 404 and with
\* the response for any other status, and with no field of the reader
\* changed.
C28_OtherStatusReturns ==
    [][\A ans \in GatewayAnswers(IF AtTop(FETCH, "get") THEN Top.url ELSE "") :
          (ans # TransportError /\ ans.status # 401 /\ Gets(ans)) =>
              /\ stack' = Rest
              /\ ret' = Ret(FALSE, IF ans.status = 404 THEN None ELSE ans, 0)
              /\ session' = session]_vars

\* check_connection got None from a fetch whose second attempt was answered
\* 404, after a first that failed.
C28_Witness ==
    /\ AtTop("check_connection", "resp")
    /\ ret.resp = None
    /\ ev.kind = "get"
    /\ ev.ans.status = 404
    /\ cycles = 1
    /\ faultsLeft = FetchFaults - 2

---------------------------------------------------------------------------
(* Properties of getData and of what it calls (Spec). *)

\* The endpoints of the capability classes and of the installer.
PolledUrls == DataUrls \ {ENDPOINT_URL_PRODUCTION_INVERTERS}

InstallerAttrs == {"endpoint_devstatus", "endpoint_production_power"}

\* The step takes the result r of the fetch that an _update_endpoint made.
UpdateEndpointGot(r) == AtTop("_update_endpoint", "response") /\ ret.resp = r

\* The step takes the result r of the fetch of the inverter detail.
InvertersGot(r) == AtTop("getData", "response") /\ ret.resp = r

\* C4: when a polled endpoint answers 404 (the fetch returns None), the
\* cache entry of that endpoint is absent afterwards and the call goes on,
\* or ends, without an error.
C4_NotFoundIsAbsent ==
    [][ /\ UpdateEndpointGot(None) =>
              /\ cache'[Top.attr] = None
              /\ stack' = Rest
        /\ InvertersGot(None) =>
              /\ cache'["endpoint_production_inverters"] = None
              /\ outcome' = "ok"
      ]_vars

\* C5, as stated: no refresh cycle fails on the transport failure of an
\* endpoint of the class or of the installer.
C5_FetchExceptionIsolated ==
    ~(/\ outcome = "TransportError"
      /\ hist.mode = "_update"
      /\ ev.kind = "get"
      /\ ev.url \in PolledUrls)

\* C5, amended: in a refresh cycle, when the third GET of an endpoint of the
\* class or of the installer fails like the two before it, getData ends with
\* the transport error at that step: nothing more is fetched and the cache
\* keeps what it held.
C5_TransportFailureAborts ==
    [][ (/\ hist.mode = "_update"
         /\ Gets(TransportError)
         /\ Top.url \in PolledUrls
         /\ Top.attempt = 2)
        => /\ stack' = <<>>
           /\ outcome' = "TransportError"
           /\ cache' = cache
      ]_vars

\* A refresh cycle that ended on the persisting transport failure of an
\* endpoint of the class or of the installer.
C5_Witness ==
    /\ outcome = "TransportError"
    /\ hist.mode = "_update"
    /\ ev.kind = "get"
    /\ ev.url \in PolledUrls
    /\ cycles = 2

\* C6: in a refresh cycle, a 401 that the fetch of an endpoint of the class
\* or of the installer returns (the 401 outlived the retries) is taken like
\* any answer: _update_endpoint returns and the cycle goes on; a 401 that the
\* fetch of the inverter detail returns ends getData with HTTPStatusError, and
\* nothing else does.
C6_UnauthorizedNeverAborts ==
    [][ /\ \A r \in DataAnswers("") :
              /\ (r.status = 401 /\ hist.mode = "_update" /\ UpdateEndpointGot(r)) =>
                    /\ stack' = Rest
                    /\ outcome' = "running"
              /\ (r.status = 401 /\ InvertersGot(r)) =>
                    /\ stack' = <<>>
                    /\ outcome' = "HTTPStatusError"
        /\ (outcome' = "HTTPStatusError" /\ outcome # "HTTPStatusError") =>
              /\ AtTop("getData", "response")
              /\ ret.resp.status = 401
      ]_vars

\* In a refresh cycle an endpoint of the class or of the installer answered
\* 401 three times, and _update_endpoint has the last of them in hand.
C6_Witness ==
    /\ hist.mode = "_update"
    /\ AtTop("_update_endpoint", "response")
    /\ ret.resp.status = 401

\* C7: the cache entries of devstatus and production_power change only at
\* the step that takes a 200 from the fetch of that endpoint, and become that
\* response; at no other step (a non-200 answer, a transport error, any
\* other operation) do they change.
C7_InstallerSuccessOnly ==
    [][ \A a \in InstallerAttrs :
            cache'[a] # cache[a] =>
                /\ AtTop("_update_endpoint", "response")
                /\ Top.attr = a
                /\ ret.resp.status = 200
                /\ cache'[a] = ret.resp
      ]_vars

\* In a refresh cycle with installer access, the fetch of an installer
\* endpoint returned a response that is not a 200 while an earlier response
\* is cached.
C7_Witness ==
    /\ installer_access
    /\ hist.mode = "_update"
    /\ AtTop("_update_endpoint", "response")
    /\ Top.only_on_success
    /\ ret.resp # None
    /\ ret.resp.status # 200
    /\ cache[Top.attr] # None

\* A getData call is running.
InGetData == Running /\ stack[1].fn = "getData"

\* A sign-in is under way.
SigningIn == \E i \in 1..Len(stack) : stack[i].fn = "_getEnphaseToken"

\* C8: in a getData call entered without a token, or with a token whose
\* expiry less the refresh margin is before the current time, a data
\* endpoint is requested only after a sign-in has been made; in a call
\* entered with a token that is not expired (the current time is before its
\* expiry less the margin), no sign-in is started or made before the first
\* data endpoint is requested.
C8_ExpiryTriggersReauth ==
    InGetData =>
        /\ (/\ hist.data
            /\ \/ hist.entryToken = 0
               \/ TokenExp(hist.entryToken) - buffer < now)
           => hist.reauth
        /\ (/\ ~hist.data
            /\ hist.entryToken # 0
            /\ now < TokenExp(hist.entryToken) - buffer)
           => ~hist.reauth /\ ~SigningIn

\* A call entered with a token inside its refresh margin fetches data, after
\* the sign-in.
C8_Witness ==
    /\ InGetData
    /\ hist.data
    /\ hist.reauth
    /\ hist.entryToken # 0
    /\ TokenExp(hist.entryToken) - buffer < now
    /\ now < TokenExp(hist.entryToken)

\* C9: when the token phase of getData is over and the call goes on to the
\* data, the reader holds a token and the cookies that the gateway gave for
\* that token when it reported it valid.
C9_TokenPhaseGuarantee ==
    AtTop("getData", "dispatch") =>
        /\ token # 0
        /\ header = token
        /\ cookies = SessionCookies(token)

\* C10: every request of the sign-in leaves the stored token, the header
\* and the cookies as they are, and a form without the authenticity_token
\* field, a login POST answered 400 or above, or a token response without
\* a token ends the whole call with that error: nothing catches it and no
\* request of the sign-in is made again.
C10_SignInFailsOnce ==
    [][ (Running /\ Top.fn = "_fetch_owner_token_json" /\ ev'.kind = "cloud") =>
            /\ UNCHANGED <<token, header, cookies>>
            /\ (\/ ev'.ans.body = "no authenticity_token"
                \/ Top.pc = "post" /\ ev'.ans.status >= 400
                \/ ev'.ans.body = "no token")
               => /\ stack' = <<>>
                  /\ outcome' = IF ev'.ans.body = "no authenticity_token"
                                THEN "TypeError" ELSE "Exception"
      ]_vars

\* A call that held a token ended on the login POST being rejected.
C10_Witness ==
    /\ outcome = "Exception"
    /\ ev.kind = "cloud"
    /\ ev.url = "post"
    /\ ev.ans.status >= 400
    /\ token # 0

---------------------------------------------------------------------------
(* Properties of detect_model (Spec). *)

DETECT == "detect_model"

\* A call of detect_model is on the stack.
InDetect(stk) == \E i \in 1..Len(stk) : stk[i].fn = DETECT

\* The step ends the running call of detect_model, by return or by error.
DetectEnds == InDetect(stack) /\ ~InDetect(stack')

\* The combined response the reader holds is a 200 with both sections.
CombinedOk(c) ==
    /\ c["endpoint_production_json_results"] # None
    /\ c["endpoint_production_json_results"].status = 200
    /\ c["endpoint_production_json_results"].body \in {"pcm", "pcu"}

CombinedUnauthorized(c) ==
    /\ c["endpoint_production_json_results"] # None
    /\ c["endpoint_production_json_results"].status = 401

\* C12: when the combined probe is over and the combined response is a 401,
\* detect_model raises its RuntimeError at once: the call ends with it, no
\* other endpoint is probed, the class stays Unset, and the installer access
\* and the cache stay as they are.
C12_UnauthorizedStopsDetection ==
    [][ (AtTop(DETECT, "try_pc") /\ CombinedUnauthorized(cache)) =>
            /\ stack' = <<>>
            /\ outcome' = "RuntimeError"
            /\ endpoint_type' = Unset
            /\ UNCHANGED <<installer_access, isMeteringEnabled, cache>>
            /\ ev'.kind = "none"
      ]_vars

\* A detection ended on the 401 of the combined endpoint.
C12_Witness ==
    /\ outcome = "RuntimeError"
    /\ hist.mode = "detect_model"
    /\ CombinedUnauthorized(cache)
    /\ endpoint_type = Unset
    /\ cache["endpoint_production_v1_results"] = None

\* The step is the third GET of a probe of detect_model (the combined or the
\* production-only endpoint), and it fails like the two before it.
ProbeGivesUp ==
    /\ Gets(TransportError)
    /\ Top.attempt = 2
    /\ Top.url \in {ENDPOINT_URL_PRODUCTION_JSON, ENDPOINT_URL_PRODUCTION_V1}
    /\ Len(stack) = 5
    /\ stack[2].fn = DETECT
    /\ stack[2].pc \in {"try_pc", "try_p"}

\* The production-only response the reader holds is a 200.
ProductionOnly200(c) ==
    /\ c["endpoint_production_v1_results"] # None
    /\ c["endpoint_production_v1_results"].status = 200

---------------------------------------------------------------------------
(* Properties of _update and of the order of getData (Spec). *)

\* The endpoints of a refresh cycle, by class and flags.
RefreshUrls ==
    (IF endpoint_type = ENVOY_MODEL_S
     THEN {ENDPOINT_URL_PRODUCTION_JSON, ENDPOINT_URL_ENSEMBLE_INVENTORY,
           ENDPOINT_URL_HOME_JSON}
     ELSE {})
    \cup (IF (endpoint_type = ENVOY_MODEL_C)
              \/ (endpoint_type = ENVOY_MODEL_S /\ ~isMeteringEnabled)
           THEN {ENDPOINT_URL_PRODUCTION_V1}
           ELSE {})
    \cup (IF installer_access
           THEN {ENDPOINT_URL_DEVSTATUS, ENDPOINT_URL_PRODUCTION_POWER}
           ELSE {})

\* C15: when the _update of a refresh cycle has gone through all its
\* fetches (no error ended it), the endpoints it requested are exactly
\* those of the class and the flags: production.json, the ensemble
\* inventory and home.json for ProductionAndConsumption, and the
\* production-only endpoint too without metering; the production-only
\* endpoint for ProductionOnly; devstatus and the production power if and
\* only if the reader has installer access.  While the cycle runs, and if
\* an error ends it, no other endpoint has been requested.
C15_EndpointsPerClass ==
    /\ AtTop("_update", "done") => hist.polled = RefreshUrls
    /\ hist.mode = "_update" => hist.polled \subseteq RefreshUrls

\* The _update of a ProductionAndConsumption reader without metering and
\* with installer access has gone through.
C15_Witness ==
    /\ AtTop("_update", "done")
    /\ endpoint_type = ENVOY_MODEL_S
    /\ ~isMeteringEnabled
    /\ installer_access
    /\ hist.polled = PolledUrls

\* C16, as stated: every getData call that comes to its inverter step has
\* run the refresh of _update, the call that detected the model included.
C16_RefreshEveryCycle ==
    AtTop("getData", "inverters") => hist.mode = "_update"

\* The data endpoints with a fetch under way.
Fetching == { stack[i].url : i \in FetchFrames(stack) } \cap DataUrls

\* C16, amended: a getData call runs the token phase, then either
\* detect_model (the class is Unset) or _update (the class is set), never
\* both, then the inverter step.  Until the token phase is over no data
\* endpoint is requested and neither detect_model nor _update has begun;
\* until detect_model or _update is over the inverter detail is not
\* requested; from then on only the inverter detail is.
C16_CallOrder ==
    [][ /\ AtTop("getData", "token") =>
              /\ stack'[1].pc = "dispatch"
              /\ Len(stack') > 1 => stack'[2].fn = "_getEnphaseToken"
        /\ (InGetData /\ stack[1].pc \in {"token", "dispatch"}) =>
              /\ ~hist.data
              /\ hist.mode = "none"
              /\ Fetching = {}
              /\ ev.kind = "get" => ev.url = ENDPOINT_URL_CHECK_JWT
        /\ AtTop("getData", "dispatch") =>
              /\ stack' = << [stack[1] EXCEPT !.pc = "inverters"],
                             IF endpoint_type = Unset
                             THEN Frame("detect_model", "start")
                             ELSE Frame("_update", "pc") >>
              /\ hist'.mode = stack'[2].fn
        /\ (InGetData /\ stack[1].pc = "inverters") =>
              /\ Len(stack) > 1 => stack[2].fn = hist.mode
              /\ hist.mode \in {"detect_model", "_update"}
              /\ ENDPOINT_URL_PRODUCTION_INVERTERS \notin Fetching
        /\ (InGetData /\ stack[1].pc = "response") =>
              /\ Fetching \subseteq {ENDPOINT_URL_PRODUCTION_INVERTERS}
              /\ Len(stack) > 1 => stack[2].fn = FETCH
      ]_vars

\* The call that detected the model has come to the fetch of the inverter
\* detail.
C16_Witness ==
    /\ InGetData
    /\ stack[1].pc = "response"
    /\ hist.mode = "detect_model"
    /\ Fetching = {ENDPOINT_URL_PRODUCTION_INVERTERS}
    /\ hist.entryToken = 0
    /\ hist.reauth

INVERTERS == "endpoint_production_inverters"

\* The step starts the fetch of the inverter detail.
FetchesInverters ==
    stack' = Append(SetTop([Top EXCEPT !.pc = "response"]),
                    FetchFrame(ENDPOINT_URL_PRODUCTION_INVERTERS))

\* C17, as stated: at its inverter step getData fetches the inverter detail
\* if the call asked for it, and whatever the fetch brings back that is not
\* a 401 becomes the cache entry.
C17_FetchedWhenAsked ==
    [][ /\ (AtTop("getData", "inverters") /\ Top.getInverters) => FetchesInverters
        /\ (AtTop("getData", "inverters") /\ ~Top.getInverters) => stack' = <<>>
        /\ (AtTop("getData", "response") /\ ret.resp.status # 401) =>
              cache'[INVERTERS] = ret.resp
      ]_vars

\* C17, amended: at its inverter step getData fetches the inverter detail
\* if and only if the call asked for it and the reader's own switch
\* (get_inverters) is on; otherwise the call returns there, the cache as it
\* was.  A response of the fetch that is not a 401 becomes the cache entry
\* and the call returns; the cache entry changes at no other step.
C17_InvertersWhenBothAsk ==
    [][ /\ AtTop("getData", "inverters") =>
              IF Top.getInverters /\ get_inverters
              THEN FetchesInverters
              ELSE /\ stack' = <<>>
                   /\ outcome' = "ok"
                   /\ cache' = cache
        /\ (/\ AtTop("getData", "response")
            /\ ret.resp # None
            /\ ret.resp.status # 401) =>
              /\ cache'[INVERTERS] = ret.resp
              /\ stack' = <<>>
              /\ outcome' = "ok"
        /\ cache'[INVERTERS] # cache[INVERTERS] => AtTop("getData", "response")
      ]_vars

\* A call that asks for the inverter detail is at its inverter step, on a
\* reader whose switch is off.
C17_Witness ==
    /\ AtTop("getData", "inverters")
    /\ Top.getInverters
    /\ ~get_inverters
    /\ cache[INVERTERS] = None

\* The step is the third GET of a data endpoint in a getData call, and it
\* fails like the two before it.
DataFetchGivesUp ==
    /\ InGetData
    /\ Gets(TransportError)
    /\ Top.attempt = 2
    /\ Top.url \in DataUrls

\* The fetch is one that detect_model makes inside a try statement.
InDetectTry ==
    /\ Len(stack) > 2
    /\ stack[2].fn = DETECT
    /\ stack[2].pc \in {"try_pc", "try_p", "try_installer"}

\* C18, as stated: a transport failure that outlives the 3 attempts of a
\* data endpoint ends the getData call with the transport error, in the
\* call that detects the model as in the others.
C18_TransportFailureSurfaces ==
    [][ DataFetchGivesUp => (stack' = <<>> /\ outcome' = "TransportError") ]_vars

\* C18, amended: a transport failure that outlives the 3 attempts of a data
\* endpoint ends the getData call with the transport error, except in a
\* probe that detect_model makes inside a try statement (the combined
\* group, the production-only probe of a gateway that is not a
\* ProductionAndConsumption, the installer group): there detect_model
\* catches it and goes on, and the call goes on with it.
C18_SurfacesUnlessProbing ==
    [][ DataFetchGivesUp =>
            IF InDetectTry
            THEN /\ stack' = SubSeq(stack, 1, 2)
                 /\ outcome' = "running"
            ELSE /\ stack' = <<>>
                 /\ outcome' = "TransportError"
      ]_vars

\* The call that detects the model ended on the transport failure of a
\* data endpoint.
C18_Witness ==
    /\ ~Running
    /\ outcome = "TransportError"
    /\ hist.mode = "detect_model"
    /\ ev.kind = "get"
    /\ ev.url \in DataUrls

---------------------------------------------------------------------------
(* Properties of the token phase and of the cookie refresh (Spec). *)

\* C26: the token phase of every getData call goes on to a validation of
\* the token (the sign-in that ends with one, or the cookie refresh), and
\* never straight to the data endpoints.
C26_ValidatedEveryCall ==
    [][AtTop("getData", "token") =>
          /\ Len(stack') = 2
          /\ stack'[2].fn \in {"_getEnphaseToken", "_refresh_token_cookies"}]_vars

REFRESH == "_refresh_token_cookies"

\* C27: when the check-token response has a heading, _refresh_token_cookies
\* returns True with the cookies of that response stored if the heading is
\* "Valid token.", and returns False with the stored cookies as they were if
\* it is any other.
C27_CookiesOnValidOnly ==
    [][(/\ AtTop(REFRESH, "token_validation_html")
        /\ ret.resp # None
        /\ ret.resp.body # "no h2") =>
          /\ stack' = Rest
          /\ IF ret.resp.body = "Valid token."
             THEN ret'.b /\ cookies' = ret.resp.cookies
             ELSE ~ret'.b /\ cookies' = cookies]_vars

\* The refresh that follows a second sign-in returned False: the cookies
\* are still those of the session of the first token.
C27_Witness ==
    /\ AtTop("_getEnphaseToken", "refreshed")
    /\ ~ret.b
    /\ token = 2
    /\ cookies = SessionCookies(1)

\* The running detect_model is in its installer probe.
InInstallerProbe ==
    \E i \in 1..Len(stack) : stack[i].fn = DETECT /\ stack[i].pc = "try_installer"

\* C29: a detect_model that has set a class, whichever, goes on to the
\* installer probe; from the probe it ends by returning, never by an error,
\* and with installer access set if the production-power response is
\* cached and as it was if not.
C29_InstallerProbeSwallowed ==
    [][ /\ (AtTop(DETECT, "typed") /\ endpoint_type # Unset) =>
              stack' = Append(SetTop([Top EXCEPT !.pc = "try_installer"]),
                              GroupFrame("_update_from_installer_endpoint"))
        /\ (InInstallerProbe /\ ~InDetect(stack')) =>
              /\ stack' # << >>
              /\ outcome' = "running"
              /\ installer_access' =
                    (installer_access \/ cache'["endpoint_production_power"] # None)
      ]_vars

---------------------------------------------------------------------------
(* Detection against a steady gateway (SpecDetect). *)

\* C14: when a call of detect_model that is not the first has ended, by
\* return or by error, against a gateway whose answers did not change, the
\* class, the metering flag and the installer access are what they were
\* when that call began, that is, what the call before it had left.
C14_DetectionIdempotent ==
    (~Running /\ cycles >= 2 /\ hist.mode = "detect_model") =>
        Detected = hist.before

\* A second detection returned on a ProductionAndConsumption gateway without
\* metering that gives installer access.
C14_Witness ==
    /\ ~Running
    /\ cycles = 2
    /\ outcome = "ok"
    /\ hist.mode = "detect_model"
    /\ hist.before = <<ENVOY_MODEL_S, FALSE, TRUE>>
    /\ Detected = hist.before

---------------------------------------------------------------------------
(* Properties of the extractors (SpecExtract). *)

COMBINED == "endpoint_production_json_results"

\* The combined response in the cache is a JSON document whose production
\* section has a power reading in its entry idx (counted from 0).
HasPower(idx) ==
    /\ cache[COMBINED].status # 0
    /\ IsJson(cache[COMBINED].body)
    /\ "production" \in DOMAIN json(cache[COMBINED].body)
    /\ Len(json(cache[COMBINED].body).production) > idx
    /\ "wNow" \in DOMAIN json(cache[COMBINED].body).production[idx + 1]

Power(idx) == json(cache[COMBINED].body).production[idx + 1].wNow

\* The production-only response in the cache is a JSON document with a
\* power reading.
HasWatts ==
    /\ cache["endpoint_production_v1_results"].status # 0
    /\ IsJson(cache["endpoint_production_v1_results"].body)
    /\ "wattsNow" \in DOMAIN json(cache["endpoint_production_v1_results"].body)

Watts == json(cache["endpoint_production_v1_results"].body).wattsNow

\* A number of the model is the integer n if it is 10 * n plus a fraction
\* towards zero.
IsIntegerOf(n, x) == IF x >= 0 THEN 10 * n <= x /\ x < 10 * n + 10
                                ELSE 10 * n >= x /\ x > 10 * n - 10

\* C19: production() returns the integer of wNow of entry 1 of the
\* production section for a ProductionAndConsumption reader with metering,
\* of entry 0 without metering, and the integer of wattsNow of the
\* production-only document for a ProductionOnly reader; for the two
\* example bodies it returns 500 and 300.
C19_ProductionReading ==
    hist.mode = "production" =>
        /\ (endpoint_type = ENVOY_MODEL_S /\ isMeteringEnabled /\ HasPower(1)) =>
              /\ outcome = "ok"
              /\ IsIntegerOf(ret.value, Power(1))
        /\ (endpoint_type = ENVOY_MODEL_S /\ ~isMeteringEnabled /\ HasPower(0)) =>
              /\ outcome = "ok"
              /\ IsIntegerOf(ret.value, Power(0))
        /\ (endpoint_type = ENVOY_MODEL_C /\ HasWatts) =>
              /\ outcome = "ok"
              /\ IsIntegerOf(ret.value, Watts)
        /\ (/\ endpoint_type = ENVOY_MODEL_S
            /\ isMeteringEnabled
            /\ cache[COMBINED].status = 200
            /\ cache[COMBINED].body = "example_combined") =>
              ret = Returns(500)
        /\ (/\ endpoint_type = ENVOY_MODEL_C
            /\ cache["endpoint_production_v1_results"].status = 200
            /\ cache["endpoint_production_v1_results"].body = "example_production_only") =>
              ret = Returns(300)

\* production() of a ProductionAndConsumption reader without metering
\* returned the power of entry 0, which is not that of entry 1.
C19_Witness ==
    /\ hist.mode = "production"
    /\ endpoint_type = ENVOY_MODEL_S
    /\ ~isMeteringEnabled
    /\ HasPower(0)
    /\ HasPower(1)
    /\ int(Power(0)) # int(Power(1))
    /\ ret = Returns(int(Power(0)))

ConsumptionExtractors ==
    {"consumption", "daily_consumption", "seven_days_consumption", "lifetime_consumption"}

\* C20: for a ProductionOnly reader the four consumption extractors return
\* the consumption-not-available message and raise nothing, whatever the
\* cache holds.
C20_ConsumptionSentinel ==
    (hist.mode \in ConsumptionExtractors /\ endpoint_type = ENVOY_MODEL_C) =>
        /\ outcome = "ok"
        /\ ret = Returns(message_consumption_not_available)

\* lifetime_consumption() of a ProductionOnly reader returned the message
\* with no combined response in the cache.
C20_Witness ==
    /\ hist.mode = "lifetime_consumption"
    /\ endpoint_type = ENVOY_MODEL_C
    /\ cache[COMBINED].status = 0
    /\ ret = Returns(message_consumption_not_available)

PhaseExtractors ==
    {"production_phase", "consumption_phase", "daily_production_phase",
     "daily_consumption_phase", "lifetime_production_phase",
     "lifetime_consumption_phase"}

\* The section of the combined document, and the key of a line, that a
\* per-phase extractor is about.
PhaseSection(fn) ==
    IF fn \in {"production_phase", "daily_production_phase", "lifetime_production_phase"}
    THEN "production" ELSE "consumption"

PhaseKey(fn) ==
    IF fn \in {"production_phase", "consumption_phase"} THEN "wNow"
    ELSE IF fn \in {"daily_production_phase", "daily_consumption_phase"} THEN "whToday"
    ELSE "whLifetime"

\* The lines list of the metered entry of a section of the combined
\* document in the cache (entry 1 of production, entry 0 of consumption).
HasLines(section) ==
    /\ cache[COMBINED].status # 0
    /\ IsJson(cache[COMBINED].body)
    /\ section \in DOMAIN json(cache[COMBINED].body)
    /\ Len(json(cache[COMBINED].body)[section]) >= (IF section = "production" THEN 2 ELSE 1)
    /\ "lines" \in DOMAIN json(cache[COMBINED].body)[section][IF section = "production" THEN 2 ELSE 1]

LinesOf(section) ==
    json(cache[COMBINED].body)[section][IF section = "production" THEN 2 ELSE 1].lines

\* C21: on a ProductionAndConsumption reader with metering, each of the six
\* per-phase extractors, asked for l1, l2 or l3, returns the integer of its
\* key in element 0, 1 or 2 of the lines list of its section.
C21_PhaseElement ==
    (/\ hist.mode \in PhaseExtractors
     /\ endpoint_type = ENVOY_MODEL_S
     /\ isMeteringEnabled
     /\ HasLines(PhaseSection(hist.mode))
     /\ Len(LinesOf(PhaseSection(hist.mode))) > phase_map[hist.arg]
     /\ PhaseKey(hist.mode) \in
            DOMAIN LinesOf(PhaseSection(hist.mode))[phase_map[hist.arg] + 1]) =>
        ret = Returns(int(
                LinesOf(PhaseSection(hist.mode))[phase_map[hist.arg] + 1][PhaseKey(hist.mode)]))

\* C22: a per-phase extractor raises nothing, and returns None on a
\* ProductionOnly reader.
C22_PhaseNeverRaises ==
    hist.mode \in PhaseExtractors =>
        /\ outcome = "ok"
        /\ endpoint_type = ENVOY_MODEL_C => ret = ReturnsNone

OtherExtractors ==
    {"inverters_production", "inverters_status", "relay_status", "battery_storage",
     "grid_status", "production_power", "firmware_data"}

\* C23: inverters_production(), inverters_status(), relay_status(),
\* battery_storage(), grid_status(), production_power() and firmware_data()
\* raise nothing, whatever the cache holds.
C23_OthersNeverRaise == hist.mode \in OtherExtractors => outcome = "ok"

Extractors == ConsumptionExtractors \cup {"production"} \cup PhaseExtractors \cup OtherExtractors

\* C24: a call of an extractor makes no request and leaves every field of
\* the reader, the cache included, as it was; called again, it returns what
\* it returned the time before.
C24_ExtractorsOnlyRead ==
    [][hist'.mode \in Extractors =>
          /\ session' = session
          /\ ev' = ev
          /\ reqCount' = reqCount
          /\ stack' = stack
          /\ (hist.mode = hist'.mode /\ hist.arg = hist'.arg) =>
                (ret' = ret /\ outcome' = outcome)]_vars

\* production_power() returned the state after a PUT was sent, and the PUT
\* is still the last request made.
C24_Witness ==
    /\ hist.mode = "production_power"
    /\ cache["endpoint_production_power"] = Resp(200, "power_on", 0)
    /\ ret = Returns(TRUE)
    /\ ev.kind = "put"

POWER == "endpoint_production_power"

\* C25: set_production_power(power_on) makes no request when no
\* production_power response is cached; otherwise it sends one PUT to the
\* production-power endpoint with the forced-off value 0 for true and 1 for
\* false, ends with that request (by the transport error, if that is its
\* answer), and leaves the cache and what production_power() returns as they
\* were.
C25_OnePut ==
    [][hist'.mode = "set_production_power" =>
          /\ ~Running'
          /\ session' = session
          /\ production_power' = production_power
          /\ IF cache[POWER] = None
             THEN ev' = NoEv /\ outcome' = "ok"
             ELSE /\ ev'.kind = "put"
                  /\ ev'.url = ENDPOINT_URL_PRODUCTION_POWER
                  /\ ev'.data = [length |-> 1, arr |-> <<IF hist'.arg THEN 0 ELSE 1>>]
                  /\ outcome' = IF ev'.ans = TransportError THEN "TransportError" ELSE "ok"]_vars

\* set_production_power(False) sent forced-off 1 and got no answer, with
\* the cached state still on.
C25_Witness ==
    /\ hist.mode = "set_production_power"
    /\ hist.arg = FALSE
    /\ ev.kind = "put"
    /\ ev.data.arr = <<1>>
    /\ outcome = "TransportError"
    /\ cache["endpoint_production_power"] = Resp(200, "power_on", 0)
    /\ production_power = Returns(TRUE)

DEVSTATUS == "endpoint_devstatus"

\* The serials of the rows of the pcu table of the gateway that are relays
\* (relays = TRUE), or that are not.
PcuSerials(relays) ==
    { device.pcu[i][1] : i \in { j \in DOMAIN device.pcu :
                                    (device.pcu[j][2] = RelayDevType) = relays } }

\* C30: with the devstatus of the gateway in the cache, inverters_status()
\* returns an entry for the serial of every pcu row whose type is not 12 and
\* for no other, and the first loop of relay_status() makes an entry for the
\* serial of every pcu row whose type is 12 and for no other, all of which
\* are in what relay_status() returns; where no two rows have the same
\* serial, no serial is in both.
C30_RollUpsPartition ==
    (hist.mode \in {"inverters_status", "relay_status"}
        /\ cache[DEVSTATUS].body = "devstatus") =>
        /\ outcome = "ok"
        /\ "none" \notin DOMAIN ret
        /\ hist.mode = "inverters_status" => DOMAIN ret.value = PcuSerials(FALSE)
        /\ hist.mode = "relay_status" => PcuSerials(TRUE) \subseteq DOMAIN ret.value
        /\ DOMAIN relay_pcu(json("devstatus")) = PcuSerials(TRUE)
        /\ DOMAIN inverters_status.value = PcuSerials(FALSE)
        /\ (\A i, j \in DOMAIN device.pcu : device.pcu[i][1] = device.pcu[j][1] => i = j) =>
              PcuSerials(TRUE) \cap PcuSerials(FALSE) = {}

\* relay_status() returned the relay of a table of one relay and one
\* inverter, and nothing for the inverter.
C30_Witness ==
    /\ hist.mode = "relay_status"
    /\ cache[DEVSTATUS].body = "devstatus"
    /\ device.pcu = << <<"121", 1>>, <<"122", RelayDevType>> >>
    /\ device.nsrb = << >>
    /\ outcome = "ok"
    /\ DOMAIN ret.value = {"122"}
    /\ DOMAIN inverters_status.value = {"121"}

\* The serials of the rows of the nsrb table of the gateway.
NsrbSerials == { device.nsrb[i] : i \in DOMAIN device.nsrb }

\* C31: in what relay_status() returns, the entry of a serial that is both
\* in a devType-12 row of the pcu table and in a row of the nsrb table has
\* the fields relay, forced, reason_code and reason and no other: the
\* communicating and report_date that the first loop had collected for the
\* serial are not in it.
C31_NsrbReplacesPcu ==
    (hist.mode = "relay_status" /\ cache[DEVSTATUS].body = "devstatus") =>
        \A serial \in PcuSerials(TRUE) \cap NsrbSerials :
            /\ DOMAIN relay_pcu(json("devstatus"))[serial] = {"communicating", "report_date"}
            /\ DOMAIN ret.value[serial] = {"relay", "forced", "reason_code", "reason"}

\* relay_status() returned the nsrb fields alone for relay 122, which the
\* pcu table has as well.
C31_Witness ==
    /\ hist.mode = "relay_status"
    /\ cache[DEVSTATUS].body = "devstatus"
    /\ device.pcu = << <<"121", 1>>, <<"122", RelayDevType>> >>
    /\ device.nsrb = << "122" >>
    /\ outcome = "ok"
    /\ ret.value["122"] = [relay |-> "closed", forced |-> FALSE, reason_code |-> 0, reason |-> "ok"]

---------------------------------------------------------------------------
(* The reader in use (SpecUse). *)

UPDATE == "_update"

\* The frame that the step puts on top of getData.
Dispatched(fn) ==
    /\ Len(stack') = Len(stack) + 1
    /\ stack'[Len(stack')].fn = fn

\* C32: detect_model is called by getData alone, and only by a reader that
\* has no class; once the reader has a class, no step of getData, of the
\* endpoint refresh, of the token refresh, of an extractor or of
\* set_production_power changes the class or the metering flag, and the
\* dispatch of every later getData calls _update and not detect_model.
C32_ClassIsFinal ==
    [][ /\ endpoint_type # Unset =>
              /\ endpoint_type' = endpoint_type
              /\ isMeteringEnabled' = isMeteringEnabled
        /\ (~InDetect(stack) /\ InDetect(stack')) =>
              /\ AtTop("getData", "dispatch")
              /\ endpoint_type = Unset
        /\ (AtTop("getData", "dispatch") /\ endpoint_type # Unset) =>
              /\ Dispatched(UPDATE)
              /\ ~InDetect(stack') ]_vars

\* The last call of a reader that has a class is a getData in its refresh.
C32_Witness ==
    /\ cycles = MaxCycles
    /\ endpoint_type # Unset
    /\ Running /\ Top.fn = UPDATE
    /\ hist.mode = "_update"

\* C33: a detect_model that ends by an error, whichever (the two detection
\* errors, an error of a probe that nothing catches, the installer probe
\* included), leaves the reader without a class, so that the dispatch of
\* the next getData calls detect_model again.
C33_DetectAllOrNothing ==
    [][ (InDetect(stack) /\ stack' = << >>) => endpoint_type' = Unset ]_vars

InstallerCacheSound ==
    /\ \A attr \in InstallerAttrs : cache[attr] # None => cache[attr].status = 200
    /\ installer_access => cache["endpoint_production_power"] # None

\* C34: in every state a devstatus or production-power response that is
\* cached has status 200, and a reader with installer access has a cached
\* production-power response; no step takes installer access away.
C34_InstallerCache ==
    /\ InstallerCacheSound
    /\ [][ /\ InstallerCacheSound'
           /\ installer_access => installer_access' ]_vars

\* A reader with installer access and both installer responses cached has
\* ended a later getData.
C34_Witness ==
    /\ ~Running
    /\ cycles = MaxCycles
    /\ hist.mode = "_update"
    /\ installer_access
    /\ \A attr \in InstallerAttrs : cache[attr] # None

---------------------------------------------------------------------------
(* The re-authentication inside the retry loop (SpecFetch). *)

\* The step ends, otherwise than by a return, what the retry loop at i
\* awaits after a 401: _refresh_token_cookies or _getEnphaseToken.
ReauthFails(i) ==
    /\ stack[i].pc # "get"
    /\ Len(stack) > i
    /\ Len(stack') <= i
    /\ stack' # SubSeq(stack, 1, i)

\* C35: a transport error that ends the token refresh awaited by a retry
\* loop after a 401 stops at that loop, which goes on with the next attempt
\* at its own url (the 401 was at attempt 0 or 1, so a GET follows); any
\* other error that ends the refresh or the sign-in leaves the loop, and
\* every retry loop around it, at once.
C35_ReauthErrors ==
    [][ \A i \in FetchFrames(stack) :
            ReauthFails(i) =>
                IF ev'.ans = TransportError
                THEN /\ stack[i].attempt < ReauthAttempts
                     /\ stack' = Append(SubSeq(stack, 1, i - 1),
                                        [stack[i] EXCEPT !.attempt = @ + 1, !.pc = "get"])
                ELSE /\ Len(stack') < i
                     /\ FetchFrames(stack') = {} ]_vars

\* The third GET of auth/check_jwt failed in transport, and the retry loop
\* that had asked for the refresh is at its second attempt.
C35_Witness ==
    /\ Running
    /\ Top.fn = FETCH /\ Top.pc = "get" /\ Top.attempt = 1
    /\ Top.url # ENDPOINT_URL_CHECK_JWT
    /\ ev.kind = "get"
    /\ ev.url = ENDPOINT_URL_CHECK_JWT
    /\ ev.ans = TransportError

---------------------------------------------------------------------------
(* The authorization header (Spec). *)

\* The reader is suspended: it awaits the answer of the gateway or of the
\* cloud, or no call of it is running.
Suspended ==
    \/ ~Running
    \/ Top.fn = FETCH /\ Top.pc = "get" /\ Top.attempt < RetryAttempts
    \/ Top.fn = "_fetch_owner_token_json"

\* The step is the return of a _refresh_token_cookies that found the token
\* not valid.
ReportsInvalid ==
    /\ AtTop(REFRESH, "token_validation_html")
    /\ stack' = Rest
    /\ ~ret'.b

---------------------------------------------------------------------------
(* The cache of a production-only reader (SpecUse). *)

\* The cache entries that _update_from_pc_endpoint writes.
CombinedAttrs ==
    {"endpoint_production_json_results", "endpoint_ensemble_json_results",
     "endpoint_home_json_results"}

\* The step is a call of the extractor fn.
Reads(fn) == ~Running /\ hist'.mode = fn /\ hist'.arg = "none"

\* C37: no step of a reader whose class is production-only (the rest of
\* its detecting getData, every later getData, set_production_power, the
\* extractors) changes the cached responses of production.json, of the
\* ensemble inventory and of home.json: they stay as the first probe of
\* detect_model left them, and grid_status, firmware_data and
\* battery_storage give what these responses hold.
C37_CombinedCacheKept ==
    [][ endpoint_type = ENVOY_MODEL_C =>
            /\ \A attr \in CombinedAttrs : cache'[attr] = cache[attr]
            /\ Reads("grid_status") => ret' = grid_status
            /\ Reads("firmware_data") => ret' = firmware_data
            /\ Reads("battery_storage") => ret' = battery_storage ]_vars

\* grid_status was read from the home.json response that a production-only
\* reader holds after its second call.
C37_Witness ==
    /\ ~Running
    /\ endpoint_type = ENVOY_MODEL_C
    /\ cycles = MaxCycles
    /\ hist.mode = "grid_status"
    /\ cache["endpoint_home_json_results"] # None
    /\ cache["endpoint_production_v1_results"] # None

---------------------------------------------------------------------------
(* The 401 of the inverter-detail endpoint (Spec). *)

\* getData has the answer of the inverter-detail endpoint, which is a 401.
InvertersUnauthorized ==
    /\ AtTop("getData", "response")
    /\ ret.resp # None
    /\ ret.resp.status = 401

\* C38: a getData that has a 401 from the inverter-detail endpoint ends with
\* the error of that status and the step changes nothing of the reader: the
\* cached inverter response is the one of before (no other step of a
\* getData writes it than the one that ends the call by a return), and the
\* class and the responses that detect_model or _update stored earlier in
\* the call stay.
C38_InverterFailureKeepsCache ==
    [][ /\ InvertersUnauthorized =>
              /\ stack' = << >>
              /\ outcome' = "HTTPStatusError"
              /\ session' = session
        /\ cache'[INVERTERS] # cache[INVERTERS] =>
              /\ AtTop("getData", "response")
              /\ stack' = << >>
              /\ outcome' = "ok"
              /\ cache'[INVERTERS] = ret.resp ]_vars

\* The second getData of a reader, which holds an inverter response, has
\* refreshed the production response and has a 401 from the inverter-detail
\* endpoint.
C38_Witness ==
    /\ InvertersUnauthorized
    /\ hist.mode = "_update"
    /\ cache[INVERTERS] # None
    /\ cache[INVERTERS].status # 401
    /\ hist.polled # {}

====
